---- MODULE Spec2Model ----
(***************************************************************************)
(* A model of djsonapi (src/djsonapi) together with the articles app that  *)
(* uses it (src/articles): the schema validator, the error model, the      *)
(* dispatcher views of Resource, the document builder and the operations   *)
(* of the Article descriptor, over a small data store.                     *)
(*                                                                         *)
(* Conventions.  A Python string that the code builds by formatting or     *)
(* joining is a sequence of string pieces (a "text"); a URL path is the    *)
(* sequence of its segments; a JSON value is a tagged record (JStr, JNum,  *)
(* JObj, JArr); a dict is a function whose DOMAIN is its key set.          *)
(***************************************************************************)
EXTENDS Integers, Sequences, FiniteSets, TLC

VARIABLES
    db,         \* the data store: the articles table, its next key, the users
    req,        \* the request being answered, or NoReq between requests
    resp,       \* the response produced for req, or NoResp
    pre,        \* the data store as it was when the view was entered
    steps,      \* what the view has done for req so far, in order
    internal,   \* the exception of an undeclared kind raised for req, or NoExc
    pending,    \* per worker: a create_one that has read but not yet written
    input,      \* the arguments a function of the library is applied to
    output      \* what the function gave for input, once it was applied

vars == <<db, req, resp, pre, steps, internal, pending, input, output>>

(***************************************************************************)
(* Bounds of the model.                                                    *)
(***************************************************************************)
MaxArticles == 3     \* rows the articles table may ever hold (caps nextId)
NCategories == 2     \* categories 1..NCategories exist
NWorkers == 2        \* requests handled concurrently

(***************************************************************************)
(* Generic helpers.                                                        *)
(***************************************************************************)
Range(f) == {f[x] : x \in DOMAIN f}

SeqToSet(q) == {q[i] : i \in 1..Len(q)}

Min(a, b) == IF a < b THEN a ELSE b

\* The elements of q that satisfy Test, in order.
FilterSeq(q, Test(_)) == SelectSeq(q, Test)

RECURSIVE FlattenSeq(_)
FlattenSeq(qq) ==
    IF qq = <<>> THEN <<>> ELSE Head(qq) \o FlattenSeq(Tail(qq))

\* A set of integers as the ascending sequence of its elements.
RECURSIVE SortedSeq(_)
SortedSeq(S) ==
    IF S = {} THEN <<>>
    ELSE LET m == CHOOSE x \in S : \A y \in S : x <= y
         IN  <<m>> \o SortedSeq(S \ {m})

\* f restricted to the keys in K (a dict comprehension with a key filter).
Restrict(f, K) == [k \in (DOMAIN f) \cap K |-> f[k]]

\* f without the key k (del f[k]).
Without(f, k) == [x \in (DOMAIN f) \ {k} |-> f[x]]

\* f with f[k] = v (f[k] = v on a dict, adding the key when it is new).
With(f, k, v) == [x \in (DOMAIN f) \cup {k} |-> IF x = k THEN v ELSE f[x]]

\* dict.setdefault(k, v) as a new dict.
SetDefault(f, k, v) == IF k \in DOMAIN f THEN f ELSE With(f, k, v)

EmptyDict == [x \in {} |-> x]

(***************************************************************************)
(* Strings of digits: str(int), int(str) and the pattern ^\d+$.            *)
(***************************************************************************)
Numerals == <<"1", "2", "3", "4", "5", "6", "7", "8", "9", "10", "11", "12">>

\* str(n) for an integer primary key.
IntToStr(n) == Numerals[n]

\* The strings int() accepts, with their values; "01" is 1, as int("01") is.
ParsedInts == [s \in {"0", "01", "98", "99"} \cup SeqToSet(Numerals) |->
    CASE s = "0" -> 0
      [] s = "01" -> 1
      [] s = "98" -> 98
      [] s = "99" -> 99
      [] OTHER -> CHOOSE n \in 1..Len(Numerals) : Numerals[n] = s]

IsDigits(s) == s \in DOMAIN ParsedInts

StrToInt(s) == ParsedInts[s]

(***************************************************************************)
(* JSON values.                                                            *)
(***************************************************************************)
JStr(s) == [t |-> "str", s |-> s]
JNum == [t |-> "num"]
JObj(f) == [t |-> "obj", f |-> f]
JArr(q) == [t |-> "arr", q |-> q]

IsStr(j) == j.t = "str"
IsObj(j) == j.t = "obj"
IsArr(j) == j.t = "arr"

(***************************************************************************)
(* Schemas, as jsonschema_utils builds them.  A dict keeps the order its   *)
(* keys were inserted in, which is the order jsonschema reports errors in: *)
(* `order` is that order for `properties`.                                 *)
(***************************************************************************)
NoMinProperties == 0

Object(order, properties, required, minProperties) ==
    [type |-> "object", additionalProperties |-> FALSE, required |-> required,
     order |-> order, properties |-> properties, minProperties |-> minProperties]

\* String(): any string.
String == [type |-> "string", hasEnum |-> FALSE, enum |-> {}, pattern |-> "none"]

\* String(enum): one of the strings of enum.
StringEnum(enum) ==
    [type |-> "string", hasEnum |-> TRUE, enum |-> enum, pattern |-> "none"]

\* String(pattern=r'^\d+$').
StringDigits ==
    [type |-> "string", hasEnum |-> FALSE, enum |-> {}, pattern |-> "digits"]

\* {'type': "array", 'items': items}
ArrayOf(items) == [type |-> "array", items |-> items]

\* One step of a path into the instance: a property name or an array index.
Key(k) == [key |-> k]
Index(i) == [index |-> i]
IsIndex(p) == "index" \in DOMAIN p

\* A jsonschema ValidationError: where, which keyword, and its message.
SchemaError(path, validator, message) ==
    [path |-> path, validator |-> validator, message |-> message]

(***************************************************************************)
(* Draft7Validator.iter_errors: every violation of schema by the instance, *)
(* keyword by keyword in the order of the schema dict, each with the path  *)
(* from the root of the instance to the place of the violation.            *)
(***************************************************************************)
RECURSIVE iter_errors(_, _, _)
iter_errors(instance, schema, path) ==
    CASE schema.type = "object" ->
           LET isObj == IsObj(instance)
               keys == IF isObj THEN DOMAIN instance.f ELSE {}
               typeErr == IF isObj THEN <<>>
                          ELSE <<SchemaError(path, "type",
                                     <<"is not of type 'object'">>)>>
               extras == keys \ SeqToSet(schema.order)
               additional ==
                   IF isObj /\ extras # {}
                   THEN <<SchemaError(path, "additionalProperties",
                             <<"Additional properties are not allowed">>)>>
                   ELSE <<>>
               IsMissing(k) == k \notin keys
               missing == IF isObj THEN FilterSeq(schema.required, IsMissing)
                          ELSE <<>>
               required == [i \in 1..Len(missing) |->
                               SchemaError(path, "required",
                                   <<"'", missing[i], "' is a required property">>)]
               IsPresent(k) == k \in keys
               present == FilterSeq(schema.order, IsPresent)
               nested == FlattenSeq([i \in 1..Len(present) |->
                           iter_errors(instance.f[present[i]],
                                       schema.properties[present[i]],
                                       Append(path, Key(present[i])))])
               minProps ==
                   IF isObj /\ Cardinality(keys) < schema.minProperties
                   THEN <<SchemaError(path, "minProperties",
                             <<"does not have enough properties">>)>>
                   ELSE <<>>
           IN  typeErr \o additional \o required \o nested \o minProps
      [] schema.type = "string" ->
           LET typeErr == IF IsStr(instance) THEN <<>>
                          ELSE <<SchemaError(path, "type",
                                     <<"is not of type 'string'">>)>>
               enumErr ==
                   IF schema.hasEnum /\
                      ~(IsStr(instance) /\ instance.s \in schema.enum)
                   THEN <<SchemaError(path, "enum", <<"is not one of the enum">>)>>
                   ELSE <<>>
               patternErr ==
                   IF schema.pattern = "digits" /\ IsStr(instance) /\
                      ~IsDigits(instance.s)
                   THEN <<SchemaError(path, "pattern", <<"does not match '^\\d+$'">>)>>
                   ELSE <<>>
           IN  typeErr \o enumErr \o patternErr
      [] schema.type = "array" ->
           LET typeErr == IF IsArr(instance) THEN <<>>
                          ELSE <<SchemaError(path, "type",
                                     <<"is not of type 'array'">>)>>
               n == IF IsArr(instance) THEN Len(instance.q) ELSE 0
               nested == FlattenSeq([i \in 1..n |->
                           iter_errors(instance.q[i], schema.items,
                                       Append(path, Index(i - 1)))])
           IN  typeErr \o nested

(***************************************************************************)
(* The error model (exceptions.py).  A class name is the sequence of its   *)
(* characters, so that title and code are computed as the code computes    *)
(* them.                                                                   *)
(***************************************************************************)
Chars_ServerError == <<"S", "e", "r", "v", "e", "r", "E", "r", "r", "o", "r">>
Chars_BadRequest == <<"B", "a", "d", "R", "e", "q", "u", "e", "s", "t">>
Chars_NotFound == <<"N", "o", "t", "F", "o", "u", "n", "d">>
Chars_Conflict == <<"C", "o", "n", "f", "l", "i", "c", "t">>

LowerCase == [c \in {"S", "E", "B", "R", "N", "F", "C"} |->
    CASE c = "S" -> "s" [] c = "E" -> "e" [] c = "B" -> "b" [] c = "R" -> "r"
      [] c = "N" -> "n" [] c = "F" -> "f" [] c = "C" -> "c"]

IsUpper(c) == c \in DOMAIN LowerCase

\* char.upper() for the characters a result can start with.
UpperCase(c) ==
    IF \E u \in DOMAIN LowerCase : LowerCase[u] = c
    THEN CHOOSE u \in DOMAIN LowerCase : LowerCase[u] = c
    ELSE c

\* The characters of a class name with `sep` and the lower-case letter in
\* the place of every upper-case letter.
Separated(text, sep) ==
    FlattenSeq([i \in 1..Len(text) |->
        IF IsUpper(text[i]) THEN <<sep, LowerCase[text[i]]>> ELSE <<text[i]>>])

\* result[1:] when result starts with sep
Stripped(result, sep) ==
    IF result # <<>> /\ Head(result) = sep THEN Tail(result) ELSE result

\* result[0].upper() + result[1:]
Capitalized(result) ==
    IF result = <<>> THEN result
    ELSE <<UpperCase(Head(result))>> \o Tail(result)

\* 'NotFound' => 'Not found'
class_name_to_title(text) == Capitalized(Stripped(Separated(text, " "), " "))

\* 'NotFound' => 'not_found'
class_name_to_code(text) == Stripped(Separated(text, "_"), "_")

\* The HTTP status codes an error class may declare as its STATUS.
StatusCodes == {400, 401, 404, 409, 500, 502}

\* str(STATUS)
StatusStr(n) ==
    CASE n = 400 -> "400" [] n = 401 -> "401" [] n = 404 -> "404"
      [] n = 409 -> "409" [] n = 500 -> "500" [] n = 502 -> "502"

DETAIL == <<"Something went wrong">>

\* source=None
None == EmptyDict

\* No exception.
NoExc == [kind |-> "none"]

\* DjsonApiExceptionSingle.__init__ of a subclass with the given name and
\* STATUS, CODE and TITLE left None; detail None is the empty text.
\* `context` is the exception that was being handled when this one was
\* raised (Python's __context__), NoExc outside an except block.
DjsonApiExceptionSingle(name, STATUS, detail, source) ==
    [kind |-> "single", cls |-> name, STATUS |-> STATUS,
     title |-> class_name_to_title(name),
     detail |-> IF detail = <<>> THEN DETAIL ELSE detail,
     source |-> source, context |-> NoExc]

ServerError == DjsonApiExceptionSingle(Chars_ServerError, 500, <<>>, None)
BadRequest(detail, source) ==
    DjsonApiExceptionSingle(Chars_BadRequest, 400, detail, source)
NotFound(detail) == DjsonApiExceptionSingle(Chars_NotFound, 404, detail, None)
Conflict(detail) == DjsonApiExceptionSingle(Chars_Conflict, 409, detail, None)

\* DjsonApiExceptionMulti(*errors)
DjsonApiExceptionMulti(errors) == [kind |-> "multi", args |-> errors]

\* An exception that is no DjsonApiException, with the text of str(exc).
OtherError(name, text) == [kind |-> "other", cls |-> name, text |-> text]

IsMulti(exc) == exc.kind = "multi"

IsSingle(exc) == exc.kind = "single"

\* isinstance(exc, DjsonApiException)
IsDjsonApiException(exc) == IsMulti(exc) \/ IsSingle(exc)

\* DjsonApiExceptionSingle.render
RenderSingle(exc) ==
    LET result == [status |-> StatusStr(exc.STATUS),
                   code |-> class_name_to_code(exc.cls),
                   title |-> exc.title,
                   detail |-> exc.detail]
    IN  <<IF DOMAIN exc.source # {} THEN With(result, "source", exc.source)
          ELSE result>>

\* DjsonApiExceptionMulti.render
RenderMulti(exc) ==
    FlattenSeq([i \in 1..Len(exc.args) |-> RenderSingle(exc.args[i])])

render(exc) == IF IsMulti(exc) THEN RenderMulti(exc) ELSE RenderSingle(exc)

SetMax(S) == CHOOSE x \in S : \A y \in S : y <= x

\* max() of an empty set raises ValueError: no status.
NoStatus == 0

\* The largest status of the members, not rounded to its class.
MultiStatus_max(memberStatuses) ==
    IF memberStatuses = <<>> THEN NoStatus
    ELSE SetMax(SeqToSet(memberStatuses))

\* DjsonApiExceptionMulti.status over the STATUS values of the members.
MultiStatus(memberStatuses) ==
    LET statuses == SeqToSet(memberStatuses)
    IN  IF Cardinality(statuses) = 1 THEN CHOOSE x \in statuses : TRUE
        ELSE IF statuses = {} THEN NoStatus
        ELSE SetMax({(x \div 100) * 100 : x \in statuses})

status(exc) ==
    IF IsMulti(exc)
    THEN MultiStatus([i \in 1..Len(exc.args) |-> exc.args[i].STATUS])
    ELSE exc.STATUS

(***************************************************************************)
(* What a call gives back: a value, or an exception.                       *)
(***************************************************************************)
Return(val) == [raised |-> FALSE, val |-> val]
Raise(exc) == [raised |-> TRUE, exc |-> exc]

(***************************************************************************)
(* jsonschema_utils.py                                                     *)
(***************************************************************************)
\* sep.join(parts) as a text.
RECURSIVE Join(_, _)
Join(sep, parts) ==
    IF parts = <<>> THEN <<>>
    ELSE IF Len(parts) = 1 THEN <<Head(parts)>>
    ELSE <<Head(parts), sep>> \o Join(sep, Tail(parts))

\* str(part) of a path step.
PartStr(p) ==
    IF IsIndex(p) THEN (IF p.index = 0 THEN "0" ELSE IntToStr(p.index))
    ELSE p.key

\* A request body: the bytes either parse as JSON or do not.
Body(json) == [wellFormed |-> TRUE, json |-> json]
Malformed == [wellFormed |-> FALSE, json |-> JNum]

get_body(request) ==
    IF request.body.wellFormed THEN Return(request.body.json)
    ELSE Raise(BadRequest(<<"Expecting value: line 1 column 1 (char 0)">>, None))

\* str.join raises TypeError on an item that is not a str: an array index.
JoinTypeError ==
    OtherError("TypeError", <<"sequence item: expected str instance, int found">>)

\* The loop of raise_for_body over the errors the validator found.
BodyErrors(found) ==
    IF \E i \in 1..Len(found) :
          \E j \in 1..Len(found[i].path) : IsIndex(found[i].path[j])
    THEN Raise(JoinTypeError)
    ELSE IF found # <<>>
    THEN Raise(DjsonApiExceptionMulti([i \in 1..Len(found) |->
             BadRequest(found[i].message,
                        [pointer |-> <<".">> \o
                            Join(".", [j \in 1..Len(found[i].path) |->
                                          found[i].path[j].key])])]))
    ELSE Return(TRUE)

raise_for_body(obj, schema) == BodyErrors(iter_errors(obj, schema, <<>>))

\* request.GET as the instance the validator sees: an object of strings.
ParamsInstance(GET) == JObj([k \in DOMAIN GET |-> JStr(GET[k])])

\* source of raise_for_params: the path as  a[b][c]
ParameterSource(path) ==
    IF path # <<>>
    THEN [parameter |-> <<PartStr(path[1])>> \o
             FlattenSeq([j \in 1..(Len(path) - 1) |->
                            <<"[", PartStr(path[j + 1]), "]">>])]
    ELSE None

\* The loop of raise_for_params over the errors the validator found.
ParamsErrors(found) ==
    IF found # <<>>
    THEN Raise(DjsonApiExceptionMulti([i \in 1..Len(found) |->
             BadRequest(found[i].message, ParameterSource(found[i].path))]))
    ELSE Return(TRUE)

raise_for_params(obj, schema) ==
    ParamsErrors(iter_errors(ParamsInstance(obj), schema, <<>>))

(***************************************************************************)
(* The data store (models.py).  An article row has a unique slug, an       *)
(* author and a set of categories; users and categories are rows whose     *)
(* columns follow from their key, as the fixtures of tests.py make them.   *)
(***************************************************************************)
UserIds == {1, 2}

CategoryIds == 1..NCategories

ArticleRow(slug, title, content, author_id, categories) ==
    [slug |-> slug, title |-> title, content |-> content,
     author_id |-> author_id, categories |-> categories]

\* "author-{}".format(id) and the like, for the keys the store can hold.
Format(template, id) ==
    CASE template = "author-{}" -> <<"author-1", "author-2", "author-3">>[id]
      [] template = "Author{}" -> <<"Author1", "Author2", "Author3">>[id]
      [] template = "Authoropoulos{}" ->
            <<"Authoropoulos1", "Authoropoulos2", "Authoropoulos3">>[id]
      [] template = "category-{}" ->
            <<"category-1", "category-2", "category-3", "category-4">>[id]
      [] template = "Category {}" ->
            <<"Category 1", "Category 2", "Category 3", "Category 4">>[id]

UserRow(id) ==
    [id |-> id, username |-> Format("author-{}", id),
     first_name |-> Format("Author{}", id),
     last_name |-> Format("Authoropoulos{}", id)]

CategoryRow(id) ==
    [id |-> id, slug |-> Format("category-{}", id),
     name |-> Format("Category {}", id)]

\* The ORM turns a key given as a string into an integer and raises
\* ValueError when it is not one.
KeyValueError(s) ==
    OtherError("ValueError", <<"Field 'id' expected a number but got '", s, "'">>)

\* Article._get_article
_get_article(store, obj_id) ==
    IF ~IsDigits(obj_id) THEN Raise(KeyValueError(obj_id))
    ELSE IF StrToInt(obj_id) \in DOMAIN store.articles
    THEN Return(StrToInt(obj_id))
    ELSE Raise(NotFound(<<"Article with id '", obj_id, "' not found">>))

\* User._get_user (through User._raise_not_found)
_get_user(store, obj_id) ==
    IF ~IsDigits(obj_id) THEN Raise(KeyValueError(obj_id))
    ELSE IF StrToInt(obj_id) \in store.users THEN Return(StrToInt(obj_id))
    ELSE Raise(NotFound(<<"User with id '", obj_id, "' not found">>))

\* Category._get_category
_get_category(store, obj_id) ==
    IF ~IsDigits(obj_id) THEN Raise(KeyValueError(obj_id))
    ELSE IF StrToInt(obj_id) \in CategoryIds THEN Return(StrToInt(obj_id))
    ELSE Raise(NotFound(<<"Category with id '", obj_id, "' not found">>))

(***************************************************************************)
(* What an operation of a descriptor gives back to its view: the store as  *)
(* its writes left it, the log of what it did, and either the value it     *)
(* returned or the exception it raised.  A returned value is the dict the  *)
(* views work on: `data` (model objects of the descriptor, by key),        *)
(* `included` (wrapped resources) and `links`, or nothing (None).          *)
(***************************************************************************)
Resource(TYPE, obj) == [TYPE |-> TYPE, obj |-> obj]

\* {'data': obj}
One(obj) == [none |-> FALSE, many |-> FALSE, data |-> <<obj>>,
             hasIncluded |-> FALSE, included |-> <<>>, links |-> EmptyDict,
             meta |-> EmptyDict]

\* {'data': obj, 'included': included}
OneIncluding(obj, included) ==
    [none |-> FALSE, many |-> FALSE, data |-> <<obj>>,
     hasIncluded |-> TRUE, included |-> included, links |-> EmptyDict,
     meta |-> EmptyDict]

\* {'data': objs, 'links': links}, with 'included' and 'meta' when given
Many(objs, hasIncluded, included, links, meta) ==
    [none |-> FALSE, many |-> TRUE, data |-> objs,
     hasIncluded |-> hasIncluded, included |-> included, links |-> links,
     meta |-> meta]

\* None
Nothing == [none |-> TRUE, many |-> FALSE, data |-> <<>>,
            hasIncluded |-> FALSE, included |-> <<>>, links |-> EmptyDict,
            meta |-> EmptyDict]

Returned(store, result, log) ==
    [raised |-> FALSE, exc |-> NoExc, store |-> store, result |-> result,
     log |-> log]

Raised(store, exc, log) ==
    [raised |-> TRUE, exc |-> exc, store |-> store, result |-> Nothing,
     log |-> log]

(***************************************************************************)
(* views.py: the schemas of the Article descriptor.                        *)
(***************************************************************************)
LinkageSchema(TYPE) ==
    Object(<<"type", "id">>, [type |-> StringEnum({TYPE}), id |-> String],
           <<"type", "id">>, NoMinProperties)

AuthorRelationshipSchema ==
    Object(<<"author">>,
           [author |-> Object(<<"data">>, [data |-> LinkageSchema("users")],
                              <<"data">>, NoMinProperties)],
           <<"author">>, NoMinProperties)

ArticleAttributes == [slug |-> String, title |-> String, content |-> String]

Article_get_one_schema ==
    Object(<<"include", "fields[articles]", "fields[users]">>,
           ("include" :> StringEnum({"author"})) @@
           ("fields[articles]" :> String) @@ ("fields[users]" :> String),
           <<>>, NoMinProperties)

Article_edit_one_schema ==
    Object(<<"data">>,
           [data |-> Object(<<"type", "id", "attributes", "relationships">>,
               [type |-> StringEnum({"articles"}),
                id |-> String,
                attributes |-> Object(<<"slug", "title", "content">>,
                                      ArticleAttributes, <<>>, 1),
                relationships |-> AuthorRelationshipSchema],
               <<"type", "id">>, 3)],
           <<"data">>, NoMinProperties)

Article_create_one_schema ==
    Object(<<"data">>,
           [data |-> Object(<<"type", "attributes", "relationships">>,
               [type |-> StringEnum({"articles"}),
                attributes |-> Object(<<"slug", "title", "content">>,
                                      ArticleAttributes,
                                      <<"title", "content">>, NoMinProperties),
                relationships |-> AuthorRelationshipSchema],
               <<"type", "attributes", "relationships">>, NoMinProperties)],
           <<"data">>, NoMinProperties)

Article_change_author_schema ==
    Object(<<"data">>, [data |-> LinkageSchema("users")], <<"data">>,
           NoMinProperties)

Article__get_categories_schema ==
    Object(<<"data">>, [data |-> ArrayOf(LinkageSchema("categories"))],
           <<"data">>, NoMinProperties)

User_get_one_schema ==
    Object(<<"fields[users]">>, ("fields[users]" :> String), <<>>,
           NoMinProperties)

(***************************************************************************)
(* views.py: the operations of the Article descriptor.  An operation is    *)
(* written statement by statement: Step is one call that may raise, and    *)
(* what follows the call is the operator it is given.                      *)
(***************************************************************************)
\* One statement of an operation: `outcome` is what the call gave, after
\* the statements of `log`; it is logged as `name`, and the operation goes
\* on with Then of the value it returned or ends with the exception.
Step(store, log, name, outcome, Then(_)) ==
    IF outcome.raised THEN Raised(store, outcome.exc, Append(log, name))
    ELSE Then(outcome.val)

\* 'include' in request.GET and request.GET['include'] == "author"
IncludesAuthor(request) ==
    "include" \in DOMAIN request.GET /\ request.GET["include"] = "author"

\* Article.get_one
Article_get_one(store, request, obj_id) ==
    LET Found(article) ==
            Returned(store,
                IF IncludesAuthor(request)
                THEN OneIncluding(article,
                         <<Resource("users", store.articles[article].author_id)>>)
                ELSE One(article),
                <<"raise_for_params", "read:articles">>)
        Checked(ok) ==
            Step(store, <<"raise_for_params">>, "read:articles",
                 _get_article(store, obj_id), Found)
    IN  Step(store, <<>>, "raise_for_params",
             raise_for_params(request.GET, Article_get_one_schema), Checked)

\* The integrity error of the unique constraint on Article.slug; its text
\* is the database's own.
UniqueViolationTexts ==
    {<<"UNIQUE constraint failed: articles_article.slug">>,
     <<"duplicate key value violates unique constraint ",
       "\"articles_article_slug_key\"">>}

IntegrityError(text) == OtherError("IntegrityError", text)

SlugTaken(store, slug, except) ==
    \E i \in DOMAIN store.articles \ except : store.articles[i].slug = slug

\* The row after  for key, value in kwargs.items(): setattr(article, key, value)
SetAttrs(row, attributes, author_id) ==
    [slug |-> IF "slug" \in DOMAIN attributes THEN attributes["slug"].s
              ELSE row.slug,
     title |-> IF "title" \in DOMAIN attributes THEN attributes["title"].s
               ELSE row.title,
     content |-> IF "content" \in DOMAIN attributes THEN attributes["content"].s
                 ELSE row.content,
     author_id |-> author_id,
     categories |-> row.categories]

\* article.save() of edit_one, and what edit_one returns after it
Save(store, id, row, text, log) ==
    IF SlugTaken(store, row.slug, {id})
    THEN Raised(store, IntegrityError(text), log)
    ELSE Returned([store EXCEPT !.articles[id] = row],
                  OneIncluding(id, <<Resource("users", row.author_id)>>), log)

\* int(user_id) of a string that is no number
IntValueError(s) ==
    OtherError("ValueError",
               <<"invalid literal for int() with base 10: '", s, "'">>)

\* Article.edit_one
Article_edit_one(store, request, obj_id, text) ==
    LET log3 == <<"get_body", "raise_for_body", "read:articles">>
        Found(data, id) ==
            LET row == store.articles[id]
                attributes == IF "attributes" \in DOMAIN data
                              THEN data["attributes"].f ELSE EmptyDict
                user_id == data["relationships"].f["author"].f["data"].f["id"].s
                Authored(author_id, log) ==
                    Save(store, id, SetAttrs(row, attributes, author_id), text,
                         Append(log, "write:articles"))
                Changed(user) == Authored(user, Append(log3, "read:users"))
            IN  IF "relationships" \notin DOMAIN data
                THEN Authored(row.author_id, log3)
                ELSE IF ~IsDigits(user_id)
                THEN Raised(store, IntValueError(user_id), log3)
                ELSE IF StrToInt(user_id) = row.author_id
                THEN Authored(row.author_id, log3)
                ELSE Step(store, log3, "read:users", _get_user(store, user_id),
                          Changed)
        Parsed(body) ==
            LET Get(id) == Found(body.f["data"].f, id)
                Checked(ok) ==
                    Step(store, <<"get_body", "raise_for_body">>,
                         "read:articles", _get_article(store, obj_id), Get)
            IN  Step(store, <<"get_body">>, "raise_for_body",
                     raise_for_body(body, Article_edit_one_schema), Checked)
    IN  Step(store, <<>>, "get_body", get_body(request), Parsed)

\* A delete_one that finds the article and leaves it where it is.
Article_delete_one_keeps(store, request, obj_id) ==
    IF ~IsDigits(obj_id)
    THEN Raised(store, KeyValueError(obj_id), <<"write:articles">>)
    ELSE IF StrToInt(obj_id) \notin DOMAIN store.articles
    THEN Raised(store, NotFound(<<"Article with id '", obj_id, "' not found">>),
                <<"write:articles">>)
    ELSE Returned(store, Nothing, <<"write:articles">>)

\* Article.delete_one
Article_delete_one(store, request, obj_id) ==
    IF ~IsDigits(obj_id)
    THEN Raised(store, KeyValueError(obj_id), <<"write:articles">>)
    ELSE IF StrToInt(obj_id) \notin DOMAIN store.articles
    THEN Raised(store, NotFound(<<"Article with id '", obj_id, "' not found">>),
                <<"write:articles">>)
    ELSE Returned([store EXCEPT !.articles =
                      Without(store.articles, StrToInt(obj_id))],
                  Nothing, <<"write:articles">>)

\* A delete of the user that leaves the articles of the user in the table.
User_delete_one_orphans(store, request, obj_id) ==
    IF ~IsDigits(obj_id)
    THEN Raised(store, KeyValueError(obj_id), <<"write:users">>)
    ELSE IF StrToInt(obj_id) \notin store.users
    THEN Raised(store, NotFound(<<"User with id '", obj_id, "' not found">>),
                <<"write:users">>)
    ELSE Returned([store EXCEPT !.users = @ \ {StrToInt(obj_id)}],
                  Nothing, <<"write:users">>)

\* User.delete_one: the delete of the row cascades to the articles whose
\* author it is (Article.author, on_delete=CASCADE).
User_delete_one(store, request, obj_id) ==
    IF ~IsDigits(obj_id)
    THEN Raised(store, KeyValueError(obj_id), <<"write:users">>)
    ELSE IF StrToInt(obj_id) \notin store.users
    THEN Raised(store, NotFound(<<"User with id '", obj_id, "' not found">>),
                <<"write:users">>)
    ELSE Returned([store EXCEPT
                      !.users = @ \ {StrToInt(obj_id)},
                      !.articles = Restrict(@, {i \in DOMAIN @ :
                                        @[i].author_id # StrToInt(obj_id)})],
                  Nothing, <<"write:users">>)

(***************************************************************************)
(* views.py: Article.create_one.  The operation first reads (the author,   *)
(* the slugs in use) and then inserts; create_one_check is the reading     *)
(* part and create_one_insert the insert, so that two requests can be      *)
(* interleaved between them.                                               *)
(***************************************************************************)
\* django.utils.text.slugify, for the titles of the model.
slugify(title) ==
    CASE title = "Foo" -> "foo"
      [] title = "foo" -> "foo"
      [] title = "Article" -> "article"
      [] OTHER -> title

\* f"{prefix}-{i}"
Suffixed(prefix, i) ==
    CASE prefix = "foo" -> <<"foo-1", "foo-2", "foo-3", "foo-4", "foo-5",
                             "foo-6">>[i]
      [] prefix = "article" ->
            <<"article-1", "article-2", "article-3", "article-4", "article-5",
              "article-6">>[i]

MaxSuffix == 5

\* slug.startswith(prefix)
StartsWith(slug, prefix) ==
    \/ slug = prefix
    \/ /\ prefix \in {"foo", "article"}
       /\ \E i \in 1..MaxSuffix : slug = Suffixed(prefix, i)

\* prefix-1 whenever the prefix is taken, without a look at the others.
FirstFree_one(prefix, existing_slugs) ==
    IF prefix \notin existing_slugs THEN prefix ELSE Suffixed(prefix, 1)

\* The first of prefix, prefix-1, prefix-2, ... that is not among the
\* existing slugs.
FirstFree(prefix, existing_slugs) ==
    IF prefix \notin existing_slugs THEN prefix
    ELSE Suffixed(prefix,
             CHOOSE n \in 1..MaxSuffix :
                /\ Suffixed(prefix, n) \notin existing_slugs
                /\ \A m \in 1..(n - 1) : Suffixed(prefix, m) \in existing_slugs)

\* The slug create_one derives from the title.
DerivedSlug(store, prefix) ==
    FirstFree(prefix,
              {store.articles[i].slug : i \in
                  {j \in DOMAIN store.articles :
                      StartsWith(store.articles[j].slug, prefix)}})

NoPending == [author_id |-> 0, slug |-> "", title |-> "", content |-> "",
              request |-> [method |-> "none"], log |-> <<>>]

\* create_one up to the call of create(): what it is about to insert.
Article_create_one_check(store, request) ==
    LET log3 == <<"get_body", "raise_for_body", "read:users">>
        log4 == Append(log3, "read:articles")
        Ready(attributes, author, slug) ==
            [raised |-> FALSE, exc |-> NoExc, store |-> store,
             result |-> Nothing, log |-> log4,
             pend |-> [author_id |-> author, slug |-> slug,
                       title |-> attributes["title"].s,
                       content |-> attributes["content"].s,
                       request |-> request, log |-> log4]]
        Authored(attributes, author) ==
            IF "slug" \in DOMAIN attributes
            THEN IF SlugTaken(store, attributes["slug"].s, {})
                 THEN Raised(store,
                          Conflict(<<"Article with slug '", attributes["slug"].s,
                                     "' already exists">>), log4)
                 ELSE Ready(attributes, author, attributes["slug"].s)
            ELSE Ready(attributes, author,
                       DerivedSlug(store, slugify(attributes["title"].s)))
        Parsed(body) ==
            LET data == body.f["data"].f
                Got(author) == Authored(data["attributes"].f, author)
                Checked(ok) ==
                    Step(store, <<"get_body", "raise_for_body">>, "read:users",
                         _get_user(store,
                             data["relationships"].f["author"].f["data"].f["id"].s),
                         Got)
            IN  Step(store, <<"get_body">>, "raise_for_body",
                     raise_for_body(body, Article_create_one_schema), Checked)
    IN  Step(store, <<>>, "get_body", get_body(request), Parsed)

\* A create() on a table whose slug column is not unique.
Article_create_one_insert_unchecked(store, pend, text) ==
    Returned([store EXCEPT
                 !.articles = With(store.articles, store.nextId,
                                   ArticleRow(pend.slug, pend.title,
                                              pend.content, pend.author_id,
                                              {})),
                 !.nextId = store.nextId + 1],
             OneIncluding(store.nextId, <<Resource("users", pend.author_id)>>),
             Append(pend.log, "write:articles"))

\* The call of create() and what follows it; str(exc) of the exception
\* create() raised goes into the Conflict.
Article_create_one_insert(store, pend, text) ==
    IF SlugTaken(store, pend.slug, {})
    THEN Raised(store,
             [Conflict(text) EXCEPT !.context = IntegrityError(text)],
             Append(pend.log, "write:articles"))
    ELSE Returned([store EXCEPT
                      !.articles = With(store.articles, store.nextId,
                                        ArticleRow(pend.slug, pend.title,
                                                   pend.content, pend.author_id,
                                                   {})),
                      !.nextId = store.nextId + 1],
                  OneIncluding(store.nextId,
                               <<Resource("users", pend.author_id)>>),
                  Append(pend.log, "write:articles"))

\* create_one from where its reading part has left it.
Inserted(read, text) ==
    IF read.raised THEN read
    ELSE Article_create_one_insert(read.store, read.pend, text)

\* Article.create_one, when nothing else writes between its reads and its
\* insert
Article_create_one(store, request, text) ==
    Inserted(Article_create_one_check(store, request), text)

(***************************************************************************)
(* views.py: Article.get_author, change_author                             *)
(***************************************************************************)
\* User.get_one, after the statements of log
User_get_one(store, request, obj_id, log) ==
    LET log1 == Append(log, "raise_for_params")
        Found(user) == Returned(store, One(user), Append(log1, "read:users"))
        Checked(ok) ==
            Step(store, log1, "read:users", _get_user(store, obj_id), Found)
    IN  Step(store, log, "raise_for_params",
             raise_for_params(request.GET, User_get_one_schema), Checked)

\* result['data'] = User(result['data'])
AsUser(result) ==
    IF result.raised THEN result
    ELSE Returned(result.store, One(Resource("users", result.result.data[1])),
                  result.log)

\* Article.get_author
Article_get_author(store, request, obj_id) ==
    LET Found(article) ==
            AsUser(User_get_one(store, request,
                       IntToStr(store.articles[article].author_id),
                       <<"read:articles">>))
    IN  Step(store, <<>>, "read:articles", _get_article(store, obj_id), Found)

\* Article.change_author
Article_change_author(store, request, obj_id) ==
    LET log3 == <<"get_body", "raise_for_body", "read:articles">>
        log4 == Append(log3, "read:users")
        Parsed(body) ==
            LET Found(article) ==
                    LET Got(user) ==
                            IF user # store.articles[article].author_id
                            THEN Returned([store EXCEPT
                                     !.articles[article].author_id = user],
                                     Nothing, Append(log4, "write:articles"))
                            ELSE Returned(store, Nothing, log4)
                    IN  Step(store, log3, "read:users",
                             _get_user(store, body.f["data"].f["id"].s), Got)
                Checked(ok) ==
                    Step(store, <<"get_body", "raise_for_body">>,
                         "read:articles", _get_article(store, obj_id), Found)
            IN  Step(store, <<"get_body">>, "raise_for_body",
                     raise_for_body(body, Article_change_author_schema), Checked)
    IN  Step(store, <<>>, "get_body", get_body(request), Parsed)

(***************************************************************************)
(* views.py: Article._get_categories, reset/add/remove_categories          *)
(***************************************************************************)
\* A set of strings in the order a Python set iterates it: some fixed order.
RECURSIVE SetToSeq(_)
SetToSeq(S) ==
    IF S = {} THEN <<>>
    ELSE LET x == CHOOSE y \in S : TRUE IN <<x>> \o SetToSeq(S \ {x})

\* errors of _get_categories: one NotFound for each of the ids
CategoriesNotFound(missing) ==
    [i \in 1..Len(missing) |->
        NotFound(<<"Category with id '", missing[i], "' not found">>)]

\* _get_categories from the filter on: the categories whose key is the
\* number of a requested id are found, and a requested id that is not
\* str(key) of a found one is an error.
Requested(store, article, requested_ids, log) ==
    LET categories == {c \in CategoryIds :
                          \E r \in requested_ids : StrToInt(r) = c}
        found_ids == {IntToStr(c) : c \in categories}
    IN  IF \E r \in requested_ids : ~IsDigits(r)
        THEN Raised(store,
                 KeyValueError(CHOOSE r \in requested_ids : ~IsDigits(r)), log)
        ELSE IF requested_ids \ found_ids # {}
        THEN Raised(store,
                 DjsonApiExceptionMulti(
                     CategoriesNotFound(SetToSeq(requested_ids \ found_ids))),
                 Append(log, "read:categories"))
        ELSE [raised |-> FALSE, exc |-> NoExc, store |-> store,
              result |-> Nothing, log |-> Append(log, "read:categories"),
              article |-> article, categories |-> categories]

\* Article._get_categories
Article__get_categories(store, request, obj_id) ==
    LET Parsed(body) ==
            LET items == body.f["data"].q
                Found(article) ==
                    Requested(store, article,
                        {items[i].f["id"].s : i \in 1..Len(items)},
                        <<"get_body", "raise_for_body", "read:articles">>)
                Checked(ok) ==
                    Step(store, <<"get_body", "raise_for_body">>,
                         "read:articles", _get_article(store, obj_id), Found)
            IN  Step(store, <<"get_body">>, "raise_for_body",
                     raise_for_body(body, Article__get_categories_schema),
                     Checked)
    IN  Step(store, <<>>, "get_body", get_body(request), Parsed)

\* A link table that only ever gains rows.
Linked_adds(prefix, current, categories) == current \cup categories

\* The rows of the link table after the manager call named by prefix.
Linked(prefix, current, categories) ==
    CASE prefix = "reset" -> categories
      [] prefix = "add" -> current \cup categories
      [] prefix = "remove" -> current \ categories

\* article.categories.set / add / remove of what _get_categories returned
Relinked(prefix, got) ==
    IF got.raised THEN got
    ELSE Returned([got.store EXCEPT !.articles[got.article].categories =
                      Linked(prefix, @, got.categories)],
                  Nothing, Append(got.log, "write:linkage"))

\* Article.reset_categories, add_categories and remove_categories
Article_change_categories(prefix, store, request, obj_id) ==
    Relinked(prefix, Article__get_categories(store, request, obj_id))

(***************************************************************************)
(* views.py: Article.get_many, Category.get_many and the nested getters    *)
(* that reach them through Resource.map_to_method.                         *)
(***************************************************************************)
PageSize == 10

Article_get_many_schema ==
    Object(<<"filter[author]", "filter[category]", "page", "include",
             "fields[articles]", "fields[users]">>,
           ("filter[author]" :> String) @@ ("filter[category]" :> String) @@
           ("page" :> StringDigits) @@ ("include" :> StringEnum({"author"})) @@
           ("fields[articles]" :> String) @@ ("fields[users]" :> String),
           <<>>, NoMinProperties)

Category_get_many_schema ==
    Object(<<"page", "filter[slug]", "filter[name]", "filter[article]",
             "fields[categories]">>,
           ("page" :> StringDigits) @@ ("filter[slug]" :> String) @@
           ("filter[name]" :> String) @@ ("filter[article]" :> String) @@
           ("fields[categories]" :> String),
           <<>>, NoMinProperties)

\* queryset[start:end] raises when start is negative.
NegativeIndexing ==
    OtherError("AssertionError", <<"Negative indexing is not supported.">>)

\* q[start:end] for 0 <= start
Slice(q, start, end) ==
    IF start >= Len(q) THEN <<>> ELSE SubSeq(q, start + 1, Min(end, Len(q)))

\* The links an operation returns for a page: {'page': page - 1} as
\* 'previous' when page > 1, {'page': page + 1} as 'next' when there is more.
PageLinks(page, count) ==
    (IF page > 1 THEN ("previous" :> [page |-> page - 1]) ELSE EmptyDict) @@
    (IF count > (page - 1) * PageSize + PageSize
     THEN ("next" :> [page |-> page + 1]) ELSE EmptyDict)

\* The elements of q without repetition, ascending: sorted(set(q)).
SortedSet(q) == SortedSeq(SeqToSet(q))

\* int(request.GET.get('page', '1'))
PageOf(GET) == IF "page" \in DOMAIN GET THEN StrToInt(GET["page"]) ELSE 1

\* The authors of the articles of the page, each once, as resources.
AuthorsOf(store, data) ==
    LET authors == SortedSet([i \in 1..Len(data) |->
                                 store.articles[data[i]].author_id])
    IN  [i \in 1..Len(authors) |-> Resource("users", authors[i])]

\* get_many of Article from the slicing on: the page of the queryset.
ArticlePage(store, request, queryset, page, log) ==
    IF (page - 1) * PageSize < 0 THEN Raised(store, NegativeIndexing, log)
    ELSE Returned(store,
             Many(Slice(queryset, (page - 1) * PageSize, page * PageSize),
                  IncludesAuthor(request),
                  IF IncludesAuthor(request)
                  THEN AuthorsOf(store, Slice(queryset, (page - 1) * PageSize,
                                              page * PageSize))
                  ELSE <<>>,
                  PageLinks(page, Len(queryset)), EmptyDict),
             Append(log, "read:articles"))

\* Article.get_many, after the statements of log0
Article_get_many(store, request, log0) ==
    LET GET == request.GET
        log1 == Append(log0, "raise_for_params")
        byAuthor == "filter[author]" \in DOMAIN GET
        byCategory == "filter[category]" \in DOMAIN GET
        Filtered(user, category, log) ==
            ArticlePage(store, request,
                SortedSeq({i \in DOMAIN store.articles :
                    /\ byAuthor => store.articles[i].author_id = user
                    /\ byCategory => category \in store.articles[i].categories}),
                PageOf(GET), log)
        ByAuthor(user, log) ==
            LET Got(category) ==
                    Filtered(user, category, Append(log, "read:categories"))
            IN  IF byCategory
                THEN Step(store, log, "read:categories",
                          _get_category(store, GET["filter[category]"]), Got)
                ELSE Filtered(user, 0, log)
        Got(user) == ByAuthor(user, Append(log1, "read:users"))
        Checked(ok) ==
            IF byAuthor
            THEN Step(store, log1, "read:users",
                      _get_user(store, GET["filter[author]"]), Got)
            ELSE ByAuthor(0, log1)
    IN  Step(store, log0, "raise_for_params",
             raise_for_params(GET, Article_get_many_schema), Checked)

\* get_many of Category from the slicing on.
CategoryPage(store, queryset, page, log) ==
    IF (page - 1) * PageSize < 0 THEN Raised(store, NegativeIndexing, log)
    ELSE Returned(store,
             Many(Slice(queryset, (page - 1) * PageSize, page * PageSize),
                  FALSE, <<>>, PageLinks(page, Len(queryset)),
                  [count |-> Len(queryset)]),
             Append(log, "read:categories"))

\* Category.get_many, after the statements of log0; order_by('slug') is the
\* order of the keys, as the slugs of the rows ascend with them.
Category_get_many(store, request, log0) ==
    LET GET == request.GET
        log1 == Append(log0, "raise_for_params")
        byArticle == "filter[article]" \in DOMAIN GET
        Filtered(linked, log) ==
            CategoryPage(store,
                SortedSeq({c \in CategoryIds :
                    /\ "filter[slug]" \in DOMAIN GET =>
                          CategoryRow(c).slug = GET["filter[slug]"]
                    /\ "filter[name]" \in DOMAIN GET =>
                          CategoryRow(c).name = GET["filter[name]"]
                    /\ byArticle => c \in linked}),
                PageOf(GET), log)
        Got(article) ==
            Filtered(store.articles[article].categories,
                     Append(log1, "read:articles"))
        Checked(ok) ==
            IF byArticle
            THEN Step(store, log1, "read:articles",
                      _get_article(store, GET["filter[article]"]), Got)
            ELSE Filtered({}, log1)
    IN  Step(store, log0, "raise_for_params",
             raise_for_params(GET, Category_get_many_schema), Checked)

User_get_many_schema ==
    Object(<<"filter[username]", "page", "fields[users]">>,
           ("filter[username]" :> String) @@ ("page" :> StringDigits) @@
           ("fields[users]" :> String),
           <<>>, NoMinProperties)

\* 'page' - 1 and 'page' + 1 of User.get_many: a str and an int
StrMinusInt ==
    OtherError("TypeError",
               <<"unsupported operand type(s) for -: 'str' and 'int'">>)

StrPlusInt ==
    OtherError("TypeError", <<"can only concatenate str (not \"int\") to str">>)

\* get_many of User from the slicing on.
UserPage(store, queryset, page, log) ==
    IF (page - 1) * PageSize < 0 THEN Raised(store, NegativeIndexing, log)
    ELSE IF page > 1 THEN Raised(store, StrMinusInt, log)
    ELSE IF Len(queryset) > (page - 1) * PageSize + PageSize
    THEN Raised(store, StrPlusInt, Append(log, "read:users"))
    ELSE Returned(store,
             Many(Slice(queryset, (page - 1) * PageSize, page * PageSize),
                  FALSE, <<>>, EmptyDict, EmptyDict),
             Append(log, "read:users"))

\* User.get_many, after the statements of log0; order_by('username') is
\* the order of the keys, as the usernames of the rows ascend with them.
User_get_many(store, request, log0) ==
    LET Checked(ok) ==
            UserPage(store,
                SortedSeq({u \in store.users :
                    "filter[username]" \in DOMAIN request.GET =>
                        UserRow(u).username = request.GET["filter[username]"]}),
                PageOf(request.GET), Append(log0, "raise_for_params"))
    IN  Step(store, log0, "raise_for_params",
             raise_for_params(request.GET, User_get_many_schema), Checked)

\* What map_to_method makes of what the other operation gave: every object
\* wrapped as a resource of the other descriptor.
Wrapped(store, other_resource, result) ==
    IF result.raised THEN result
    ELSE Returned(store,
             [result.result EXCEPT !.data =
                 [i \in 1..Len(result.result.data) |->
                     Resource(other_resource, result.result.data[i])]],
             result.log)

\* A map_to_method in which the value of the client stays in front of the
\* filter of the route.
map_to_method_client(store, request, other_resource, filters) ==
    Wrapped(store, other_resource,
            CASE other_resource = "categories" ->
                   Category_get_many(store,
                       [request EXCEPT !.GET = request.GET @@ filters], <<>>)
              [] other_resource = "articles" ->
                   Article_get_many(store,
                       [request EXCEPT !.GET = request.GET @@ filters], <<>>))

\* Resource.map_to_method: the operation of the other descriptor runs with
\* the filters put into request.GET (a key of filters takes the place of the
\* client's), and every object it returns is wrapped as that resource.
map_to_method(store, request, other_resource, filters) ==
    LET inner == [request EXCEPT !.GET = filters @@ request.GET]
    IN  Wrapped(store, other_resource,
                CASE other_resource = "categories" ->
                       Category_get_many(store, inner, <<>>)
                  [] other_resource = "articles" ->
                       Article_get_many(store, inner, <<>>))

Article_get_categories(store, request, obj_id) ==
    map_to_method(store, request, "categories", ("filter[article]" :> obj_id))

\* User.get_articles
User_get_articles(store, request, obj_id) ==
    map_to_method(store, request, "articles", ("filter[author]" :> obj_id))

\* Category.get_articles
Category_get_articles(store, request, obj_id) ==
    map_to_method(store, request, "articles", ("filter[category]" :> obj_id))

(***************************************************************************)
(* The descriptors of views.py and the routes Resource.as_views derives    *)
(* from them.  A method named add_categories is the pair <<"add",          *)
(* "categories">>: what the regular expressions of as_views match on.      *)
(***************************************************************************)
Types == <<"articles", "categories", "users">>

Declared(TYPE) ==
    CASE TYPE = "articles" ->
           {<<"get", "one">>, <<"edit", "one">>, <<"delete", "one">>,
            <<"create", "one">>, <<"get", "many">>, <<"get", "author">>,
            <<"change", "author">>, <<"get", "categories">>,
            <<"reset", "categories">>, <<"add", "categories">>,
            <<"remove", "categories">>}
      [] TYPE = "users" ->
           {<<"get", "one">>, <<"edit", "one">>, <<"delete", "one">>,
            <<"get", "many">>, <<"create", "one">>, <<"get", "articles">>}
      [] TYPE = "categories" ->
           {<<"get", "one">>, <<"edit", "one">>, <<"delete", "one">>,
            <<"get", "many">>, <<"create", "one">>, <<"get", "articles">>,
            <<"reset", "articles">>, <<"add", "articles">>,
            <<"remove", "articles">>}

\* hasattr(cls, f"{prefix}_{name}")
hasattr(TYPE, prefix, name) == <<prefix, name>> \in Declared(TYPE)

ObjId == "<str:obj_id>"

Route(pattern, view, relationship_name, name) ==
    [pattern |-> pattern, view |-> view,
     relationship_name |-> relationship_name, name |-> name]

\* A descriptor: its TYPE and the names of its attributes, each the
\* sequence of the words its name has between the "_": change_author is
\* <<"change", "author">>.
Descriptor(TYPE) == [TYPE |-> TYPE, attrs |-> Declared(TYPE)]

\* The names after the prefix of the methods of the descriptors, in the
\* order of dir(): by name.
MethodNames == <<"articles", "author", "categories", "many", "one">>

\* The names ^(prefix)_([^_]+)$ captures from the attributes, one of the
\* prefixes each, by name: the whole rest of the attribute, one word.
NamesWith(attrs, prefixes) ==
    LET Has(n) == \E prefix \in prefixes : <<prefix, n>> \in attrs
    IN  FilterSeq(MethodNames, Has)

\* plural_relationships = set() is the set of a shared one: what the calls
\* before have put into it stays.
plural_relationships_shared(before) ==
    UNION {{before[i].routes[j].relationship_name :
               j \in {k \in 1..Len(before[i].routes) :
                         before[i].routes[k].view = "_change_plural_view"}} :
           i \in 1..Len(before)}

\* plural_relationships = set(): every call starts with a set of its own,
\* whatever calls came before it.
plural_relationships(before) == {}

\* as_views from its plural_relationships on.
as_views_with(cls, seen) ==
    LET TYPE == cls.TYPE
        object ==
            IF <<"get", "one">> \in cls.attrs \/ <<"edit", "one">> \in cls.attrs \/
               <<"delete", "one">> \in cls.attrs
            THEN <<Route(<<TYPE, ObjId>>, "_one_view", "", <<TYPE, "_object">>)>>
            ELSE <<>>
        list ==
            IF <<"get", "many">> \in cls.attrs \/ <<"create", "one">> \in cls.attrs
            THEN <<Route(<<TYPE>>, "_many_view", "", <<TYPE, "_list">>)>>
            ELSE <<>>
        Change(names) == [i \in 1..Len(names) |->
            Route(<<TYPE, ObjId, "relationships", names[i]>>, "_change_view",
                  names[i], <<TYPE, "_", names[i], "_relationship">>)]
        Plural(names) == [i \in 1..Len(names) |->
            Route(<<TYPE, ObjId, "relationships", names[i]>>,
                  "_change_plural_view", names[i],
                  <<TYPE, "_", names[i], "_plural_relationship">>)]
        Get(names) == [i \in 1..Len(names) |->
            Route(<<TYPE, ObjId, names[i]>>, "_get_related_view", names[i],
                  <<TYPE, "_get_", names[i]>>)]
        IsRelated(n) == n \notin {"one", "many"}
        Fresh(n) == n \notin seen
        NotAdded(n) == Fresh(n) /\ <<"add", n>> \notin cls.attrs
        NotRemoved(n) == NotAdded(n) /\ <<"remove", n>> \notin cls.attrs
    \* dir(cls) gives the attributes by name: add_*, change_*, get_*,
    \* remove_*, reset_*; a to-many relationship gets its route at the
    \* first of its methods.
    IN  object \o list \o
        Plural(FilterSeq(NamesWith(cls.attrs, {"add"}), Fresh)) \o
        Change(NamesWith(cls.attrs, {"change"})) \o
        Get(FilterSeq(NamesWith(cls.attrs, {"get"}), IsRelated)) \o
        Plural(FilterSeq(NamesWith(cls.attrs, {"remove"}), NotAdded)) \o
        Plural(FilterSeq(NamesWith(cls.attrs, {"reset"}), NotRemoved))

as_views(cls) == as_views_with(cls, plural_relationships(<<>>))

\* urls.py
urlpatterns ==
    as_views(Descriptor("articles")) \o as_views(Descriptor("categories")) \o
    as_views(Descriptor("users"))

\* A pattern matches a path segment by segment; <str:obj_id> matches any.
Matches(pattern, path) ==
    /\ Len(pattern) = Len(path)
    /\ \A i \in 1..Len(pattern) : pattern[i] = ObjId \/ pattern[i] = path[i]

NoRoute == Route(<<>>, "none", "", <<>>)

\* The first of the routes that passes the test, or NoRoute.
FirstRoute(routes, Test(_)) ==
    LET hits == {i \in 1..Len(routes) : Test(routes[i])}
    IN  IF hits = {} THEN NoRoute
        ELSE routes[CHOOSE i \in hits : \A j \in hits : i <= j]

\* The first route of urlpatterns that matches the path: Django's resolver.
resolve(path) ==
    LET Hit(route) == Matches(route.pattern, path)
    IN  FirstRoute(urlpatterns, Hit)

\* The obj_id the pattern captures from the path ("" when it has none).
Captured(pattern, path) ==
    IF \E i \in 1..Len(pattern) : pattern[i] = ObjId
    THEN path[CHOOSE i \in 1..Len(pattern) : pattern[i] = ObjId]
    ELSE ""

\* A URL: a path and the query string behind it.
Url(path, query) == [path |-> path, query |-> query]

\* The URL of the route with obj_id in the place of <str:obj_id>.
Reversed(route, obj_id) ==
    IF route.view = "none" THEN [found |-> FALSE, url |-> Url(<<>>, EmptyDict)]
    ELSE [found |-> TRUE,
          url |-> Url([i \in 1..Len(route.pattern) |->
                          IF route.pattern[i] = ObjId THEN obj_id
                          ELSE route.pattern[i]],
                      EmptyDict)]

\* The route named `name` among routes, with obj_id in it; NoReverseMatch
\* is `found` FALSE.
Reverse(routes, name, obj_id) ==
    LET Named(route) == route.name = name
    IN  Reversed(FirstRoute(routes, Named), obj_id)

\* django.urls.reverse(name, kwargs={'obj_id': obj_id})
reverse(name, obj_id) == Reverse(urlpatterns, name, obj_id)

(***************************************************************************)
(* The document builder (resources.py).  A serialized object is a dict     *)
(* with 'id', 'attributes' and 'relationships'; a relationship as          *)
(* serialize gives it is a wrapped resource, a mapping or a sequence.      *)
(***************************************************************************)
\* A relationship given as a Resource (the wrapped object is its key).
AsResource(TYPE, obj) == [is |-> "Resource", TYPE |-> TYPE, obj |-> obj]

\* A relationship given as a Mapping: 'data' and 'links', each optional.
AsMapping(map) == [is |-> "Mapping", map |-> map]

\* A relationship given as a Sequence of resources.
AsSequence(items) == [is |-> "Sequence", items |-> items]

\* The values a 'data' member can have.
DataNone == [is |-> "None"]
DataDict(type, id) == [is |-> "dict", type |-> type, id |-> id]
DataSequence(items) == [is |-> "Sequence", items |-> items]

\* Article.serialize, User.serialize and Category.serialize
serialize(TYPE, store, obj) ==
    CASE TYPE = "articles" ->
           LET row == store.articles[obj]
           IN  [id |-> IntToStr(obj),
                attributes |-> [slug |-> row.slug, title |-> row.title,
                                content |-> row.content],
                relationships |-> [author |-> AsResource("users", row.author_id),
                                   categories |-> AsMapping(EmptyDict)]]
      [] TYPE = "users" ->
           LET row == UserRow(obj)
           IN  [id |-> IntToStr(obj),
                attributes |-> [username |-> row.username,
                                first_name |-> row.first_name,
                                last_name |-> row.last_name],
                relationships |-> [articles |-> AsMapping(EmptyDict)]]
      [] TYPE = "categories" ->
           LET row == CategoryRow(obj)
           IN  [id |-> IntToStr(obj),
                attributes |-> [slug |-> row.slug, name |-> row.name],
                relationships |-> [articles |-> AsMapping(EmptyDict)]]

\* request.GET[key].split(',') for the field lists of the model; a value
\* without a comma is its own only item.
CommaSeparated ==
    ("slug,title" :> <<"slug", "title">>) @@
    ("bogus,slug" :> <<"bogus", "slug">>) @@
    ("nope,zilch" :> <<"nope", "zilch">>) @@
    ("username,last_name" :> <<"username", "last_name">>) @@
    ("title,author" :> <<"title", "author">>) @@
    ("slug,slug" :> <<"slug", "slug">>)

split(s) == IF s \in DOMAIN CommaSeparated THEN CommaSeparated[s] ELSE <<s>>

\* f"fields[{type}]"
FieldsKey(type) ==
    CASE type = "articles" -> "fields[articles]"
      [] type = "users" -> "fields[users]"
      [] type = "categories" -> "fields[categories]"

Keys(obj, member) == IF member \in DOMAIN obj THEN DOMAIN obj[member] ELSE {}

\* A member limited to the fields and kept when nothing of it is left.
Limited_keeps(obj, member, fields) ==
    IF member \notin DOMAIN obj THEN obj
    ELSE With(obj, member, Restrict(obj[member], fields))

\* The object with its member (attributes or relationships) cut down to
\* the fields, and without the member when nothing of it is left.
Limited(obj, member, fields) ==
    IF member \notin DOMAIN obj THEN obj
    ELSE IF DOMAIN obj[member] \cap fields = {} THEN Without(obj, member)
    ELSE With(obj, member, Restrict(obj[member], fields))

\* errors of _limit_fields: one BadRequest for each unexpected field
Unexpected(key, unexpected) ==
    [i \in 1..Len(unexpected) |->
        BadRequest(<<"Field in 'fields' parameter is not part of the ",
                     "response ('", unexpected[i], "' was unexpected)">>,
                   [patameter |-> key])]

\* _limit_fields that raises its errors without a look at whether it has
\* any.
LimitTo_always(obj, key, fields, existing_fields) ==
    Raise(DjsonApiExceptionMulti(
        Unexpected(key, SetToSeq(fields \ existing_fields))))

\* _limit_fields for a request that has the key
LimitTo(obj, key, fields, existing_fields) ==
    IF fields \ existing_fields # {}
    THEN Raise(DjsonApiExceptionMulti(
             Unexpected(key, SetToSeq(fields \ existing_fields))))
    ELSE Return(Limited(Limited(obj, "attributes", fields),
                        "relationships", fields))

\* Resource._limit_fields
_limit_fields(request, obj) ==
    IF FieldsKey(obj.type) \notin DOMAIN request.GET THEN Return(obj)
    ELSE LimitTo(obj, FieldsKey(obj.type),
                 SeqToSet(split(request.GET[FieldsKey(obj.type)])),
                 Keys(obj, "attributes") \cup Keys(obj, "relationships"))

\* relationship['links'][name] = url in the place of the setdefault.
SetLink_replaces(relationship, name, reversed) ==
    IF ~reversed.found THEN relationship
    ELSE With(relationship, "links",
              With(IF "links" \in DOMAIN relationship
                   THEN relationship["links"] ELSE EmptyDict,
                   name, reversed.url))

\* relationship.setdefault('links', {}).setdefault(name, url), when the
\* route was found.
SetLink(relationship, name, reversed) ==
    IF ~reversed.found THEN relationship
    ELSE With(relationship, "links",
              SetDefault(IF "links" \in DOMAIN relationship
                         THEN relationship["links"] ELSE EmptyDict,
                         name, reversed.url))

\* {'type': item.TYPE, 'id': str(item.obj)} for a resource, else the item.
Linkage(item) ==
    IF item.is = "Resource" THEN [type |-> item.TYPE, id |-> IntToStr(item.obj)]
    ELSE [type |-> item.type, id |-> item.id]

Null == [null |-> TRUE]

\* 'NoneType' object is not subscriptable
NoneTypeError ==
    OtherError("TypeError", <<"'NoneType' object is not subscriptable">>)

\* A to-one branch that looks for the item route of the target first and
\* for the nested route after it.
DecorateToOne_target(routes, TYPE, id, key, map) ==
    IF map["data"].is = "None" THEN Raise(NoneTypeError)
    ELSE Return(
        SetLink(
            SetLink(
                SetLink(With(map, "data", Linkage(map["data"])),
                        "related",
                        Reverse(routes, <<Linkage(map["data"]).type, "_object">>,
                                Linkage(map["data"]).id)),
                "related", Reverse(routes, <<TYPE, "_get_", key>>, id)),
            "self", Reverse(routes, <<TYPE, "_", key, "_relationship">>, id)))

\* A to-many branch that gives every relationship a 'data' member.
DecorateToMany_data(routes, TYPE, id, key, map) ==
    Return(
        SetLink(
            SetLink(With(map, "data",
                         IF "data" \in DOMAIN map
                         THEN [i \in 1..Len(map["data"].items) |->
                                  Linkage(map["data"].items[i])]
                         ELSE <<>>),
                    "self",
                    Reverse(routes, <<TYPE, "_", key, "_plural_relationship">>,
                            id)),
            "related", Reverse(routes, <<TYPE, "_get_", key>>, id)))

\* The to-one branch of _decorate_serialized for the relationship `key`
\* of the object `id` of TYPE; `routes` is the URLconf reverse() looks in.
\* data['type'] of a None raises.
DecorateToOne(routes, TYPE, id, key, map) ==
    IF map["data"].is = "None" THEN Raise(NoneTypeError)
    ELSE Return(
        SetLink(
            SetLink(
                SetLink(With(map, "data", Linkage(map["data"])),
                        "related", Reverse(routes, <<TYPE, "_get_", key>>, id)),
                "related",
                Reverse(routes, <<Linkage(map["data"]).type, "_object">>,
                        Linkage(map["data"]).id)),
            "self", Reverse(routes, <<TYPE, "_", key, "_relationship">>, id)))

\* The to-many branch.
DecorateToMany(routes, TYPE, id, key, map) ==
    Return(
        SetLink(
            SetLink(IF "data" \in DOMAIN map
                    THEN With(map, "data",
                              [i \in 1..Len(map["data"].items) |->
                                  Linkage(map["data"].items[i])])
                    ELSE map,
                    "self",
                    Reverse(routes, <<TYPE, "_", key, "_plural_relationship">>,
                            id)),
            "related", Reverse(routes, <<TYPE, "_get_", key>>, id)))

\* A relationship as the mapping the branches work on: a Resource is
\* {'data': resource}, a Sequence {'data': sequence}.
AsMap(relationship) ==
    CASE relationship.is = "Resource" -> ("data" :> relationship)
      [] relationship.is = "Sequence" ->
            ("data" :> DataSequence(relationship.items))
      [] OTHER -> relationship.map

IsToOne(relationship) ==
    \/ relationship.is = "Resource"
    \/ /\ relationship.is = "Mapping"
       /\ "data" \in DOMAIN relationship.map
       /\ relationship.map["data"].is # "Sequence"

\* The first of the outcomes that raised, if one did.
FirstRaised(outcomes) ==
    outcomes[CHOOSE i \in 1..Len(outcomes) :
                /\ outcomes[i].raised
                /\ \A j \in 1..(i - 1) : ~outcomes[j].raised]

AnyRaised(outcomes) == \E i \in 1..Len(outcomes) : outcomes[i].raised

Values(outcomes) == [i \in 1..Len(outcomes) |-> outcomes[i].val]

\* All the values of the outcomes, or the first exception among them.
All(outcomes) ==
    IF AnyRaised(outcomes) THEN FirstRaised(outcomes)
    ELSE Return(Values(outcomes))

\* What follows a call in the code when the call raised: the exception
\* goes on; else Then of what the call returned.
AndThen(outcome, Then(_)) ==
    IF outcome.raised THEN outcome ELSE Then(outcome.val)

\* The object with its relationships as decorated (by key), or the
\* exception one of them raised.
WithRelationships(obj, decorated) ==
    IF \E key \in DOMAIN decorated : decorated[key].raised
    THEN Raise(decorated[CHOOSE key \in DOMAIN decorated :
                             decorated[key].raised].exc)
    ELSE IF DOMAIN decorated = {} THEN Return(obj)
    ELSE Return(With(obj, "relationships",
                     [key \in DOMAIN decorated |-> decorated[key].val]))

\* The loop of _decorate_serialized over the relationships of the object.
DecorateRelationships(routes, TYPE, obj) ==
    LET Decorated(key) ==
            IF IsToOne(obj.relationships[key])
            THEN DecorateToOne(routes, TYPE, obj.id, key,
                               AsMap(obj.relationships[key]))
            ELSE DecorateToMany(routes, TYPE, obj.id, key,
                                AsMap(obj.relationships[key]))
    IN  WithRelationships(obj, [key \in Keys(obj, "relationships") |->
                                   Decorated(key)])

\* _decorate_serialized with the URLconf at hand: type, the 'self' link,
\* the relationships, and the sparse fieldset at the end.
Decorate(routes, TYPE, request, serialized) ==
    LET Limit(result) == _limit_fields(request, result)
    IN  AndThen(DecorateRelationships(routes, TYPE,
                    SetLink(SetDefault(serialized, "type", TYPE), "self",
                            Reverse(routes, <<TYPE, "_object">>,
                                    serialized.id))),
                Limit)

\* Resource._decorate_serialized
_decorate_serialized(TYPE, request, serialized) ==
    Decorate(urlpatterns, TYPE, request, serialized)

\* obj.serialize(obj.obj) and obj._decorate_serialized for a wrapped resource
Shape(store, request, resource) ==
    _decorate_serialized(resource.TYPE, request,
                         serialize(resource.TYPE, store, resource.obj))

\* Resource._process_included, for side-loaded resources
_process_included(store, request, included) ==
    LET Limit(serialized) == _limit_fields(request, serialized)
    IN  All([i \in 1..Len(included) |->
                AndThen(Shape(store, request, included[i]), Limit)])

\* The result with its data, and its included when it has some, as
\* processed.
Processed(result, data, included) ==
    IF data.raised THEN data
    ELSE IF result.hasIncluded /\ included.raised THEN included
    ELSE Return(("data" :> data.val) @@
                (IF result.hasIncluded THEN ("included" :> included.val)
                 ELSE EmptyDict))

\* Resource._process_one: the document of one object of TYPE
_process_one(TYPE, store, request, result) ==
    Processed(result,
              _decorate_serialized(TYPE, request,
                                   serialize(TYPE, store, result.data[1])),
              _process_included(store, request, result.included))

\* request.get_full_path()
get_full_path(request) == Url(request.path, request.GET)

\* Links that carry the keys of the mapping and nothing of the request.
_process_links_bare(request, links) ==
    [key \in DOMAIN links \cup {"self"} |->
        IF key = "self"
        THEN (IF "self" \in DOMAIN links THEN links["self"]
              ELSE get_full_path(request))
        ELSE Url(request.path, ("page" :> IntToStr(links[key].page)))]

\* Resource._process_links: 'self', and every link given as a mapping
\* rendered onto the path and the parameters of the request.
_process_links(request, links) ==
    [key \in DOMAIN links \cup {"self"} |->
        IF key = "self"
        THEN (IF "self" \in DOMAIN links THEN links["self"]
              ELSE get_full_path(request))
        ELSE Url(request.path,
                 ("page" :> IntToStr(links[key].page)) @@ request.GET)]

(***************************************************************************)
(* Responses, and the dispatcher views of Resource.                        *)
(***************************************************************************)
\* JsonApiResponse(body, status=status)
JsonApiResponse(body, statusCode) ==
    [status |-> statusCode, body |-> body, escaped |-> FALSE,
     headers |-> ("Content-Type" :> "application/vnd.api+json")]

\* HttpResponse('', status=204)
HttpResponse204 ==
    [status |-> 204, body |-> EmptyDict, escaped |-> FALSE,
     headers |-> ("Content-Type" :> "text/html; charset=utf-8")]

\* What the client gets when the view raises instead of returning a
\* response: nothing of this repository catches the exception (the
\* middleware imports a name resources.py does not define), and the server
\* answers with its own 500 page.
UncaughtResponse ==
    [status |-> 500, body |-> EmptyDict, escaped |-> TRUE,
     headers |-> ("Content-Type" :> "text/html; charset=utf-8")]

\* What a view has done: the store it leaves, the response, the log of the
\* operation, and the exception that was raised on the way (or NoExc).
Viewed(store, response, log, exc) ==
    [store |-> store, response |-> response, log |-> log, exc |-> exc]

\* The response for a declared error, given its status; a status that
\* cannot be computed raises out of the handler.
ErrorResponse(exc, statusCode) ==
    IF statusCode = NoStatus THEN UncaughtResponse
    ELSE JsonApiResponse([errors |-> render(exc)], statusCode)

\* Resource.exception_handler
exception_handler(exc) ==
    IF IsDjsonApiException(exc) THEN ErrorResponse(exc, status(exc))
    ELSE ErrorResponse(ServerError, 500)

\* request.path as the text of an f-string
PathText(path) == FlattenSeq([i \in 1..Len(path) |-> <<"/", path[i]>>])

\* Resource._raise_unsupported_verb_error
_raise_unsupported_verb_error(request) ==
    NotFound(<<"Endpoint '">> \o PathText(request.path) \o
             <<"' does not support method ", request.method>>)

\* The view raised exc and nothing caught it.
Escaped(store, exc, log) == Viewed(store, UncaughtResponse, log, exc)

\* The view caught exc and answers with what exception_handler makes of it.
Handled(store, exc, log) == Viewed(store, exception_handler(exc), log, exc)

\* The view answers with the response.
Responded(store, response, log) ==
    Viewed(store, response, Append(log, "respond"), NoExc)

\* A block that keeps its writes although an exception left it.
atomic_commits(before, after, raised) == after

\* The store after a `with atomic():` block that began with `before`: the
\* writes of the block are kept unless an exception left it.
atomic(before, after, raised) == IF raised THEN before ELSE after

\* The methods of the descriptors, as the views look them up on cls, for
\* the routes that take requests in this model.
get_one(TYPE, store, request, obj_id) ==
    CASE TYPE = "articles" -> Article_get_one(store, request, obj_id)

edit_one(TYPE, store, request, obj_id, text) ==
    CASE TYPE = "articles" -> Article_edit_one(store, request, obj_id, text)

delete_one(TYPE, store, request, obj_id) ==
    CASE TYPE = "articles" -> Article_delete_one(store, request, obj_id)
      [] TYPE = "users" -> User_delete_one(store, request, obj_id)

create_one(TYPE, store, request, text) ==
    CASE TYPE = "articles" -> Article_create_one(store, request, text)

get_many(TYPE, store, request) ==
    CASE TYPE = "articles" -> Article_get_many(store, request, <<>>)

\* getattr(cls, f"change_{relationship_name}")
getattr_change(TYPE, relationship_name, store, request, obj_id) ==
    CASE TYPE = "articles" /\ relationship_name = "author" ->
           Article_change_author(store, request, obj_id)

\* getattr(cls, f"{prefix}_{relationship_name}")
getattr_plural(TYPE, prefix, relationship_name, store, request, obj_id) ==
    CASE TYPE = "articles" /\ relationship_name = "categories" ->
           Article_change_categories(prefix, store, request, obj_id)

\* getattr(cls, f"get_{relationship_name}")
getattr_get(TYPE, relationship_name, store, request, obj_id) ==
    CASE TYPE = "articles" /\ relationship_name = "author" ->
           Article_get_author(store, request, obj_id)
      [] TYPE = "articles" /\ relationship_name = "categories" ->
           Article_get_categories(store, request, obj_id)
      [] TYPE = "users" /\ relationship_name = "articles" ->
           User_get_articles(store, request, obj_id)
      [] TYPE = "categories" /\ relationship_name = "articles" ->
           Category_get_articles(store, request, obj_id)

\* result.setdefault('links', {}).setdefault('self', link)
SelfLink(document, link) == SetDefault(document, "links", ("self" :> link))

\* The end of a view that ran the operation (op) and shaped what it
\* returned (shaped): the response with the document, or the handler's
\* response to the exception of either; `after` is the store then.
DocumentResponse(after, op, shaped, response) ==
    IF op.raised THEN Handled(after, op.exc, op.log)
    ELSE IF shaped.raised THEN Handled(after, shaped.exc, op.log)
    ELSE Responded(after, response, op.log)

\* _get_one_view from the call of get_one on
GotOne(TYPE, request, op) ==
    LET Shaped(shaped) ==
            DocumentResponse(op.store, op, shaped,
                JsonApiResponse(SelfLink(shaped.val, get_full_path(request)),
                                200))
    IN  Shaped(_process_one(TYPE, op.store, request, op.result))

\* Resource._get_one_view
_get_one_view(TYPE, store, request, obj_id) ==
    GotOne(TYPE, request, get_one(TYPE, store, request, obj_id))

\* _edit_one_view from the call of edit_one on: the operation and the
\* shaping are in atomic()
EditedOne(TYPE, store, request, op) ==
    LET Shaped(shaped) ==
            DocumentResponse(
                atomic(store, op.store, op.raised \/ shaped.raised),
                op, shaped,
                JsonApiResponse(SelfLink(shaped.val, get_full_path(request)),
                                200))
    IN  Shaped(_process_one(TYPE, op.store, request, op.result))

\* Resource._edit_one_view
_edit_one_view(TYPE, store, request, obj_id, text) ==
    EditedOne(TYPE, store, request,
              edit_one(TYPE, store, request, obj_id, text))

\* _delete_one_view from the call of delete_one on
DeletedOne(op) ==
    IF op.raised THEN Handled(op.store, op.exc, op.log)
    ELSE Responded(op.store, HttpResponse204, op.log)

\* Resource._delete_one_view
_delete_one_view(TYPE, store, request, obj_id) ==
    DeletedOne(delete_one(TYPE, store, request, obj_id))

\* Resource._one_view
_one_view(TYPE, store, request, obj_id, text) ==
    LET mappings == [GET |-> "get", PATCH |-> "edit", DELETE |-> "delete"]
    IN  IF request.method \notin DOMAIN mappings
        THEN Escaped(store, _raise_unsupported_verb_error(request), <<>>)
        ELSE IF ~hasattr(TYPE, mappings[request.method], "one")
        THEN Escaped(store, _raise_unsupported_verb_error(request), <<>>)
        ELSE CASE mappings[request.method] = "get" ->
                    _get_one_view(TYPE, store, request, obj_id)
               [] mappings[request.method] = "edit" ->
                    _edit_one_view(TYPE, store, request, obj_id, text)
               [] mappings[request.method] = "delete" ->
                    _delete_one_view(TYPE, store, request, obj_id)

\* A 201 response that never has a Location header.
Created_bare(document, self_link) ==
    IF self_link.found
    THEN JsonApiResponse(SelfLink(document, self_link.url), 201)
    ELSE JsonApiResponse(document, 201)

\* The 201 response of _create_one_view, with the Location header when
\* the object route exists.
Created(document, self_link) ==
    IF self_link.found
    THEN [JsonApiResponse(SelfLink(document, self_link.url), 201)
             EXCEPT !.headers = ("Location" :> self_link.url) @@ @]
    ELSE JsonApiResponse(document, 201)

\* _create_one_view from the call of create_one on, under the URLconf
\* `routes`: the operation and the shaping are in atomic()
CreatedWith(routes, TYPE, store, request, op) ==
    LET Shaped(shaped) ==
            DocumentResponse(
                atomic(store, op.store, op.raised \/ shaped.raised),
                op, shaped,
                Created(shaped.val,
                        Reverse(routes, <<TYPE, "_object">>,
                                shaped.val["data"].id)))
    IN  Shaped(Processed(op.result,
                   Decorate(routes, TYPE, request,
                            serialize(TYPE, op.store, op.result.data[1])),
                   _process_included(op.store, request, op.result.included)))

CreatedOne(TYPE, store, request, op) ==
    CreatedWith(urlpatterns, TYPE, store, request, op)

\* Resource._create_one_view
_create_one_view(TYPE, store, request, text) ==
    CreatedOne(TYPE, store, request, create_one(TYPE, store, request, text))

\* The document of a collection or of a related object: the data as
\* decorated, the included as processed, the links of _process_links and
\* whatever else the operation put into its result ('meta').
Document(request, result, data, included) ==
    LET Completed(document) ==
            Return(document @@
                   (IF DOMAIN result.meta # {} THEN ("meta" :> result.meta)
                    ELSE EmptyDict) @@
                   ("links" :> _process_links(request, result.links)))
    IN  AndThen(Processed(result, data, included), Completed)

\* _get_many_view from the call of get_many on
GotMany(TYPE, request, op) ==
    LET Shaped(shaped) ==
            DocumentResponse(op.store, op, shaped,
                             JsonApiResponse(shaped.val, 200))
    IN  Shaped(Document(request, op.result,
               All([i \in 1..Len(op.result.data) |->
                       _decorate_serialized(TYPE, request,
                           serialize(TYPE, op.store, op.result.data[i]))]),
               _process_included(op.store, request, op.result.included)))

\* Resource._get_many_view
_get_many_view(TYPE, store, request) ==
    GotMany(TYPE, request, get_many(TYPE, store, request))

\* Resource._many_view
_many_view(TYPE, store, request, text) ==
    LET mappings == [GET |-> <<"get", "many">>, POST |-> <<"create", "one">>]
    IN  IF request.method \notin DOMAIN mappings
        THEN Escaped(store, _raise_unsupported_verb_error(request), <<>>)
        ELSE IF ~hasattr(TYPE, mappings[request.method][1],
                         mappings[request.method][2])
        THEN Escaped(store, _raise_unsupported_verb_error(request), <<>>)
        ELSE CASE mappings[request.method][1] = "get" ->
                    _get_many_view(TYPE, store, request)
               [] mappings[request.method][1] = "create" ->
                    _create_one_view(TYPE, store, request, text)

\* _change_view from the call of the method on
Changed(op) ==
    IF op.raised THEN Handled(op.store, op.exc, op.log)
    ELSE Responded(op.store, HttpResponse204, op.log)

\* Resource._change_view
_change_view(TYPE, store, request, relationship_name, obj_id) ==
    IF request.method # "PATCH"
    THEN Escaped(store, _raise_unsupported_verb_error(request), <<>>)
    ELSE Changed(getattr_change(TYPE, relationship_name, store, request,
                                obj_id))

\* _change_plural_view from the call of the method on: the method runs in
\* atomic(), inside the try
ChangedPlural(store, op) ==
    IF op.raised
    THEN Handled(atomic(store, op.store, op.raised), op.exc, op.log)
    ELSE Responded(atomic(store, op.store, op.raised), HttpResponse204, op.log)

\* Resource._change_plural_view
_change_plural_view(TYPE, store, request, relationship_name, obj_id) ==
    LET mapping == [POST |-> "add", DELETE |-> "remove", PATCH |-> "reset"]
    IN  IF request.method \notin DOMAIN mapping
        THEN Escaped(store, _raise_unsupported_verb_error(request), <<>>)
        ELSE IF ~hasattr(TYPE, mapping[request.method], relationship_name)
        THEN Escaped(store, _raise_unsupported_verb_error(request), <<>>)
        ELSE ChangedPlural(store,
                 getattr_plural(TYPE, mapping[request.method],
                                relationship_name, store, request, obj_id))

\* result['data'] of _get_related_view: the one object when the operation
\* gave one, the list when it gave a sequence.
RelatedData(result, all) ==
    IF result.many \/ all.raised THEN all ELSE Return(all.val[1])

\* _get_related_view from the call of the method on: the method runs
\* inside the try, the shaping of what it returned after it.
GotRelated(request, op) ==
    LET Shaped(shaped) ==
            IF op.raised THEN Handled(op.store, op.exc, op.log)
            ELSE IF shaped.raised THEN Escaped(op.store, shaped.exc, op.log)
            ELSE Responded(op.store, JsonApiResponse(shaped.val, 200), op.log)
    IN  Shaped(Document(request, op.result,
               RelatedData(op.result,
                   All([i \in 1..Len(op.result.data) |->
                           Shape(op.store, request, op.result.data[i])])),
               _process_included(op.store, request, op.result.included)))

\* Resource._get_related_view
_get_related_view(TYPE, store, request, relationship_name, obj_id) ==
    IF request.method # "GET"
    THEN Escaped(store, _raise_unsupported_verb_error(request), <<>>)
    ELSE GotRelated(request,
             getattr_get(TYPE, relationship_name, store, request, obj_id))

\* The view of the route, called with what the route captures from the
\* path of the request.
RouteView(route, store, request, text) ==
    CASE route.view = "_one_view" ->
           _one_view(route.pattern[1], store, request,
                     Captured(route.pattern, request.path), text)
      [] route.view = "_many_view" ->
           _many_view(route.pattern[1], store, request, text)
      [] route.view = "_change_view" ->
           _change_view(route.pattern[1], store, request,
                        route.relationship_name,
                        Captured(route.pattern, request.path))
      [] route.view = "_change_plural_view" ->
           _change_plural_view(route.pattern[1], store, request,
                               route.relationship_name,
                               Captured(route.pattern, request.path))
      [] route.view = "_get_related_view" ->
           _get_related_view(route.pattern[1], store, request,
                             route.relationship_name,
                             Captured(route.pattern, request.path))

\* What the server does with the request: the view of the route its path
\* resolves to.
View(store, request, text) ==
    RouteView(resolve(request.path), store, request, text)

(***************************************************************************)
(* The requests of the model: what a client may send.  A request is its    *)
(* method, its path, its query parameters (request.GET) and its body.      *)
(***************************************************************************)
Request(method, path, GET, body) ==
    [method |-> method, path |-> path, GET |-> GET, body |-> body]

NoReq == Request("none", <<>>, EmptyDict, Malformed)

NoResp == [status |-> 0, body |-> EmptyDict, escaped |-> FALSE,
           headers |-> EmptyDict]

\* {'type': type, 'id': id}
ResourceIdentifier(type, id) == JObj([type |-> JStr(type), id |-> JStr(id)])

\* {'data': [{'type': type, 'id': id}, ...]}
PluralPayload(type, ids) ==
    Body(JObj([data |-> JArr([i \in 1..Len(ids) |->
                                 ResourceIdentifier(type, ids[i])])]))

\* The id lists of the to-many payloads: known ids, unknown ones, a
\* repeated one, one that is no canonical key ("01") and one that is no
\* number.
PayloadIds ==
    <<<<>>, <<"1">>, <<"2">>, <<"1", "2">>, <<"99">>, <<"2", "99">>,
      <<"99", "98">>, <<"99", "99">>, <<"01">>, <<"abc">>>>

PluralBodies ==
    [i \in 1..Len(PayloadIds) |-> PluralPayload("categories", PayloadIds[i])] \o
    <<PluralPayload("users", <<"1">>),
      Body(JObj([data |-> JArr(<<JStr("1")>>)])),
      Body(JObj([data |-> ResourceIdentifier("categories", "1")])),
      Malformed>>

\* {'data': {'type': "articles", 'id': id, ...}} of an edit
EditBody(id, members) ==
    Body(JObj([data |-> JObj([type |-> JStr("articles"), id |-> JStr(id)] @@
                             members)]))

AuthorRelationship(type, id) ==
    JObj([author |-> JObj([data |-> ResourceIdentifier(type, id)])])

EditBodies(id) ==
    <<EditBody(id, [attributes |-> JObj([title |-> JStr("Foo")])]),
      EditBody(id, [attributes |-> JObj([slug |-> JStr("article-2")])]),
      EditBody(id, [attributes |-> JObj([slug |-> JStr("foo")])]),
      EditBody(id, [relationships |-> AuthorRelationship("users", "2")]),
      EditBody(id, [relationships |-> AuthorRelationship("users", "99")]),
      EditBody(id, EmptyDict),
      Body(JObj([data |-> JObj([type |-> JStr("articles")])])),
      Malformed>>

\* {'data': {'type': type, 'attributes': ..., 'relationships': ...}}
CreateBody(type, attributes, user_id) ==
    Body(JObj([data |-> JObj([type |-> JStr(type),
                              attributes |-> JObj(attributes),
                              relationships |->
                                  AuthorRelationship("users", user_id)])]))

Titled == [title |-> JStr("Foo"), content |-> JStr("Bar")]

\* The bodies of the creations that can succeed.
ValidCreateBodies ==
    <<CreateBody("articles", Titled, "1"),
      CreateBody("articles", Titled @@ [slug |-> JStr("article-1")], "1"),
      CreateBody("articles", Titled @@ [slug |-> JStr("foo")], "2")>>

CreateBodies ==
    ValidCreateBodies \o
    <<CreateBody("articles", Titled, "99"),
      CreateBody("articles", [title |-> JStr("Foo")], "1"),
      Body(JObj([data |-> JObj([type |-> JStr("article")])])),
      Malformed>>

ChangeAuthorBodies ==
    <<Body(JObj([data |-> ResourceIdentifier("users", "1")])),
      Body(JObj([data |-> ResourceIdentifier("users", "2")])),
      Body(JObj([data |-> ResourceIdentifier("users", "99")])),
      Body(JObj([data |-> ResourceIdentifier("articles", "2")])),
      Malformed>>

\* Query parameters.
NoParams == EmptyDict
Fields(type, value) == (FieldsKey(type) :> value)
Include(value) == ("include" :> value)

ItemParams ==
    <<NoParams, Include("author"), Include("not author"),
      Include("not author") @@ ("a" :> "b"),
      Fields("articles", "slug,title"), Fields("articles", "title,author"),
      Fields("articles", "author"), Fields("articles", "slug,slug"),
      Fields("articles", "bogus"), Fields("articles", "nope,zilch"),
      Fields("articles", "bogus,slug"),
      Include("author") @@ Fields("users", "username,last_name"),
      Include("author") @@ Fields("users", "articles"),
      Include("author") @@ Fields("users", "bogus"),
      Include("author") @@ Fields("articles", "title,author") @@
          Fields("users", "username")>>

WriteParams ==
    <<NoParams, Fields("articles", "slug,title"), Fields("articles", "bogus"),
      Fields("users", "username"), Fields("users", "nope,zilch")>>

ListParams ==
    <<NoParams, Include("author"), Fields("articles", "slug,title"),
      Fields("articles", "bogus"),
      Include("author") @@ Fields("users", "username"),
      Include("author") @@ Fields("users", "bogus"),
      ("filter[author]" :> "1"), ("filter[category]" :> "1"),
      ("filter[author]" :> "99"), ("page" :> "1"), ("page" :> "2"),
      ("page" :> "0"), ("page" :> "x"), ("a" :> "b")>>

AuthorParams ==
    <<NoParams, Include("x"), Fields("users", "username,last_name"),
      Fields("users", "articles"), Fields("users", "bogus"),
      Fields("users", "nope,zilch")>>

CategoriesParams ==
    <<NoParams, Fields("categories", "slug"), Fields("categories", "articles"),
      Fields("categories", "bogus"), ("filter[name]" :> "Category 1"),
      ("page" :> "0"), ("a" :> "b"), ("page" :> "2"),
      ("page" :> "2") @@ ("filter[name]" :> "Category 1")>>

\* Every request of a method on a path, one per parameter set and body.
Each(method, path, params, bodies) ==
    FlattenSeq([i \in 1..Len(params) |->
        [j \in 1..Len(bodies) |-> Request(method, path, params[i], bodies[j])]])

\* The methods no view of Resource maps, on every kind of route.
Unmapped(path) ==
    <<Request("PUT", path, NoParams, Malformed),
      Request("OPTIONS", path, NoParams, Malformed)>>

\* The requests on the routes of the article `id`.
ArticleRequests(id) ==
    LET item == <<"articles", id>>
        author == <<"articles", id, "relationships", "author">>
        categories == <<"articles", id, "relationships", "categories">>
    IN  Each("GET", item, ItemParams, <<Malformed>>) \o
        Each("PATCH", item, WriteParams, EditBodies(id)) \o
        Each("DELETE", item, <<NoParams>>, <<Malformed>>) \o
        Each("POST", item, <<NoParams>>, <<Malformed>>) \o
        Unmapped(item) \o
        Each("PATCH", author, <<NoParams>>, ChangeAuthorBodies) \o
        Each("GET", author, <<NoParams>>, <<Malformed>>) \o
        Each("DELETE", author, <<NoParams>>, <<Malformed>>) \o
        Unmapped(author) \o
        Each("POST", categories, <<NoParams>>, PluralBodies) \o
        Each("DELETE", categories, <<NoParams>>, PluralBodies) \o
        Each("PATCH", categories, <<NoParams>>, PluralBodies) \o
        Each("GET", categories, <<NoParams>>, <<Malformed>>) \o
        Unmapped(categories) \o
        Each("GET", <<"articles", id, "author">>, AuthorParams, <<Malformed>>) \o
        Each("POST", <<"articles", id, "author">>, <<NoParams>>, <<Malformed>>) \o
        Unmapped(<<"articles", id, "author">>) \o
        Each("GET", <<"articles", id, "categories">>, CategoriesParams,
             <<Malformed>>) \o
        Each("DELETE", <<"articles", id, "categories">>, <<NoParams>>,
             <<Malformed>>)

CollectionRequests ==
    Each("GET", <<"articles">>, ListParams, <<Malformed>>) \o
    Each("POST", <<"articles">>, WriteParams, CreateBodies) \o
    Each("DELETE", <<"articles">>, <<NoParams>>, <<Malformed>>) \o
    Unmapped(<<"articles">>)

\* Requests address the article 1, which exists at first, and the key 99,
\* which no article ever has.
Requests == ArticleRequests("1") \o ArticleRequests("99") \o CollectionRequests


(***************************************************************************)
(* STATE MACHINE                                                           *)
(*                                                                         *)
(* Spec: the server answers one request after the other.  A view runs      *)
(* from the request to the response in one step (nothing else touches the  *)
(* store meanwhile); Done forgets the answered request.                    *)
(***************************************************************************)
\* The fixtures: two articles by two authors, the first in category 1.
Fixtures ==
    [articles |->
        (1 :> ArticleRow("article-1", "Article 1", "Content of article 1", 1, {1})) @@
        (2 :> ArticleRow("article-2", "Article 2", "Content of article 2", 2, {})),
     nextId |-> 3,
     users |-> UserIds]

NoInput == <<>>
NoOutput == [done |-> FALSE]

Idle ==
    /\ req = NoReq
    /\ resp = NoResp
    /\ steps = <<>>
    /\ internal = NoExc

Init ==
    /\ db = Fixtures
    /\ pre = Fixtures
    /\ Idle
    /\ pending = [w \in 1..NWorkers |-> NoPending]
    /\ input = NoInput
    /\ output = NoOutput

\* The exception of an undeclared kind behind exc: exc itself, or the one
\* that was being handled when exc was raised.
Undeclared(exc) ==
    IF exc.kind = "other" THEN exc
    ELSE IF exc.kind = "single" /\ exc.context.kind = "other" THEN exc.context
    ELSE NoExc

\* The server answers the request with what the view gives.
Answer(request, viewed) ==
    /\ db' = viewed.store
    /\ req' = request
    /\ resp' = viewed.response
    /\ pre' = db
    /\ steps' = viewed.log
    /\ internal' = Undeclared(viewed.exc)

\* The server is free, and the request is one for a route of the view.
Arrives(request, route, view) ==
    /\ req.method = "none"
    /\ route.view = view
    /\ (view = "_many_view" /\ request.method = "POST") =>
          db.nextId <= MaxArticles

\* A request for an item route: GET, PATCH or DELETE of one object.
OneViewAnswers(request, route, text) ==
    /\ Arrives(request, route, "_one_view")
    /\ Answer(request,
              _one_view(route.pattern[1], db, request,
                        Captured(route.pattern, request.path), text))

OneView ==
    /\ \E i \in 1..Len(Requests), text \in UniqueViolationTexts :
          OneViewAnswers(Requests[i], resolve(Requests[i].path), text)
    /\ UNCHANGED <<pending, input, output>>

\* A request for a collection route: GET of the list or POST of a new object.
ManyViewAnswers(request, route, text) ==
    /\ Arrives(request, route, "_many_view")
    /\ Answer(request, _many_view(route.pattern[1], db, request, text))

ManyView ==
    /\ \E i \in 1..Len(Requests), text \in UniqueViolationTexts :
          ManyViewAnswers(Requests[i], resolve(Requests[i].path), text)
    /\ UNCHANGED <<pending, input, output>>

\* A request for the route of a to-one relationship.
ChangeViewAnswers(request, route) ==
    /\ Arrives(request, route, "_change_view")
    /\ Answer(request,
              _change_view(route.pattern[1], db, request,
                           route.relationship_name,
                           Captured(route.pattern, request.path)))

ChangeView ==
    /\ \E i \in 1..Len(Requests) :
          ChangeViewAnswers(Requests[i], resolve(Requests[i].path))
    /\ UNCHANGED <<pending, input, output>>

\* A request for the route of a to-many relationship.
ChangePluralViewAnswers(request, route) ==
    /\ Arrives(request, route, "_change_plural_view")
    /\ Answer(request,
              _change_plural_view(route.pattern[1], db, request,
                                  route.relationship_name,
                                  Captured(route.pattern, request.path)))

ChangePluralView ==
    /\ \E i \in 1..Len(Requests) :
          ChangePluralViewAnswers(Requests[i], resolve(Requests[i].path))
    /\ UNCHANGED <<pending, input, output>>

\* A request for the route of a nested getter.
GetRelatedViewAnswers(request, route) ==
    /\ Arrives(request, route, "_get_related_view")
    /\ Answer(request,
              _get_related_view(route.pattern[1], db, request,
                                route.relationship_name,
                                Captured(route.pattern, request.path)))

GetRelatedView ==
    /\ \E i \in 1..Len(Requests) :
          GetRelatedViewAnswers(Requests[i], resolve(Requests[i].path))
    /\ UNCHANGED <<pending, input, output>>

\* The response has gone out; the server waits for the next request.
Done ==
    /\ req.method # "none"
    /\ req' = NoReq
    /\ resp' = NoResp
    /\ pre' = db
    /\ steps' = <<>>
    /\ internal' = NoExc
    /\ UNCHANGED <<db, pending, input, output>>

Next ==
    \/ OneView
    \/ ManyView
    \/ ChangeView
    \/ ChangePluralView
    \/ GetRelatedView
    \/ Done

Spec == Init /\ [][Next]_vars

(***************************************************************************)
(* SpecConc: two workers of the server create articles at the same time.   *)
(* create_one reads (the author, the slugs in use) and then inserts; the   *)
(* other worker may insert between the two.  CreateBegin is create_one up  *)
(* to the call of create(), CreateCommit the rest of _create_one_view.     *)
(***************************************************************************)
\* The creations of the model.
ConcRequests ==
    Each("POST", <<"articles">>,
         <<NoParams, Fields("articles", "bogus")>>, CreateBodies)

\* The worker has read: it answers when create_one raised, and goes on to
\* the insert otherwise.
Begun(w, request, read) ==
    IF read.raised
    THEN /\ req.method = "none"
         /\ Answer(request, CreatedOne("articles", db, request, read))
         /\ UNCHANGED pending
    ELSE /\ pending' = [pending EXCEPT ![w] = read.pend]
         /\ UNCHANGED <<db, req, resp, pre, steps, internal>>

CreateBegin(w) ==
    /\ pending[w] = NoPending
    /\ db.nextId <= MaxArticles
    /\ \E i \in 1..Len(ConcRequests) :
          Begun(w, ConcRequests[i],
                Article_create_one_check(db, ConcRequests[i]))
    /\ UNCHANGED <<input, output>>

\* The worker inserts what it has prepared and answers.
Committed(pend, text) ==
    Answer(pend.request,
           CreatedOne("articles", db, pend.request,
                      Article_create_one_insert(db, pend, text)))

CreateCommit(w) ==
    /\ pending[w] # NoPending
    /\ req.method = "none"
    /\ \E text \in UniqueViolationTexts : Committed(pending[w], text)
    /\ pending' = [pending EXCEPT ![w] = NoPending]
    /\ UNCHANGED <<input, output>>

NextConc ==
    \/ \E w \in 1..NWorkers : CreateBegin(w)
    \/ \E w \in 1..NWorkers : CreateCommit(w)
    \/ Done

SpecConc == Init /\ [][NextConc]_vars

(***************************************************************************)
(* SpecStatus: DjsonApiExceptionMulti.status, applied to composite errors  *)
(* of up to MaxMembers members of every status.                            *)
(***************************************************************************)
MaxMembers == 3

\* A member of the given status.
Member(STATUS) == DjsonApiExceptionSingle(Chars_ServerError, STATUS, <<>>, None)

InitStatus ==
    /\ db = Fixtures
    /\ pre = Fixtures
    /\ Idle
    /\ pending = [w \in 1..NWorkers |-> NoPending]
    /\ \E n \in 0..MaxMembers : input \in [1..n -> StatusCodes]
    /\ output = NoOutput

\* exc.status of DjsonApiExceptionMulti(*members)
TakeStatus ==
    /\ ~output.done
    /\ output' =
          [done |-> TRUE,
           val |-> status(DjsonApiExceptionMulti(
                       [i \in 1..Len(input) |-> Member(input[i])]))]
    /\ UNCHANGED <<db, req, resp, pre, steps, internal, pending, input>>

NextStatus == TakeStatus

SpecStatus == InitStatus /\ [][NextStatus]_vars

(***************************************************************************)
(* SpecSchema: raise_for_body and raise_for_params, applied to the bodies  *)
(* and the parameters of the requests under each of the schemas of the     *)
(* operations.                                                             *)
(***************************************************************************)
WellFormed(bodies) ==
    FilterSeq(bodies, LAMBDA b : b.wellFormed)

BodySchemas ==
    <<Article_edit_one_schema, Article_create_one_schema,
      Article_change_author_schema, Article__get_categories_schema>>

ParamSchemas ==
    <<Article_get_one_schema, User_get_one_schema, Article_get_many_schema,
      Category_get_many_schema>>

\* Every instance under every schema.
Cases(fn, instances, schemas) ==
    FlattenSeq([i \in 1..Len(instances) |->
        [j \in 1..Len(schemas) |->
            [fn |-> fn, obj |-> instances[i], schema |-> schemas[j]]]])

BodyCases ==
    Cases("raise_for_body",
          [i \in 1..Len(WellFormed(PluralBodies \o EditBodies("1") \o
                                   CreateBodies \o ChangeAuthorBodies)) |->
              WellFormed(PluralBodies \o EditBodies("1") \o CreateBodies \o
                         ChangeAuthorBodies)[i].json],
          BodySchemas)

ParamCases ==
    Cases("raise_for_params",
          ItemParams \o WriteParams \o ListParams \o AuthorParams \o
          CategoriesParams,
          ParamSchemas)

InitSchema ==
    /\ db = Fixtures
    /\ pre = Fixtures
    /\ Idle
    /\ pending = [w \in 1..NWorkers |-> NoPending]
    /\ \/ \E i \in 1..Len(BodyCases) : input = BodyCases[i]
       \/ \E i \in 1..Len(ParamCases) : input = ParamCases[i]
    /\ output = NoOutput

RaiseForBody ==
    /\ ~output.done
    /\ input.fn = "raise_for_body"
    /\ output' = [done |-> TRUE,
                  outcome |-> raise_for_body(input.obj, input.schema)]
    /\ UNCHANGED <<db, req, resp, pre, steps, internal, pending, input>>

RaiseForParams ==
    /\ ~output.done
    /\ input.fn = "raise_for_params"
    /\ output' = [done |-> TRUE,
                  outcome |-> raise_for_params(input.obj, input.schema)]
    /\ UNCHANGED <<db, req, resp, pre, steps, internal, pending, input>>

NextSchema == RaiseForBody \/ RaiseForParams

SpecSchema == InitSchema /\ [][NextSchema]_vars

(***************************************************************************)
(* SpecPage: get_many of Article, User and Category on collections of up   *)
(* to MaxRows rows, for the pages a client may ask for.                    *)
(***************************************************************************)
MaxRows == 21

Pages == <<NoParams, ("page" :> "1"), ("page" :> "2"), ("page" :> "3")>>

\* A store of n articles and n users.
Rows(n) ==
    [articles |-> [i \in 1..n |-> ArticleRow("slug", "Title", "Content", 1, {})],
     nextId |-> n + 1,
     users |-> 1..n]

InitPage ==
    /\ db = Fixtures
    /\ pre = Fixtures
    /\ Idle
    /\ pending = [w \in 1..NWorkers |-> NoPending]
    /\ \E n \in 0..MaxRows, i \in 1..Len(Pages),
          TYPE \in {"articles", "users", "categories"} :
          input = [TYPE |-> TYPE, n |-> n, GET |-> Pages[i]]
    /\ output = NoOutput

Paged(op) ==
    /\ ~output.done
    /\ output' = [done |-> TRUE, op |-> op]
    /\ UNCHANGED <<db, req, resp, pre, steps, internal, pending, input>>

PageArticles ==
    /\ input.TYPE = "articles"
    /\ Paged(Article_get_many(Rows(input.n),
                 Request("GET", <<"articles">>, input.GET, Malformed), <<>>))

PageUsers ==
    /\ input.TYPE = "users"
    /\ Paged(User_get_many(Rows(input.n),
                 Request("GET", <<"users">>, input.GET, Malformed), <<>>))

\* The categories are not rows of the store: the queryset is given.
PageCategories ==
    /\ input.TYPE = "categories"
    /\ Paged(CategoryPage(Fixtures, [i \in 1..input.n |-> i],
                          PageOf(input.GET), <<"raise_for_params">>))

NextPage == PageArticles \/ PageUsers \/ PageCategories

SpecPage == InitPage /\ [][NextPage]_vars

(***************************************************************************)
(* Requests handled at the same time: every worker has a request object   *)
(* of its own, map_to_method rewrites the GET of that object, calls the    *)
(* operation and puts the old GET back; the workers interleave between     *)
(* these steps.  The store is only read.                                   *)
(***************************************************************************)
ThreadRequests ==
    Each("GET", <<"articles", "1", "categories">>,
         <<NoParams, ("page" :> "2")>>, <<Malformed>>) \o
    Each("GET", <<"articles", "2", "categories">>,
         <<("filter[name]" :> "Category 1")>>, <<Malformed>>) \o
    Each("GET", <<"articles">>,
         <<NoParams, ("page" :> "2"), Fields("articles", "title")>>,
         <<Malformed>>)

\* A worker with no request.
Free == [pc |-> "free", original |-> NoReq, request |-> NoReq,
         old_get |-> EmptyDict, op |-> Returned(Fixtures, Nothing, <<>>),
         resp |-> NoResp]

\* request.GET = params on an object all the workers share.
Rewritten_shared(workers, w, params) ==
    [v \in DOMAIN workers |-> [workers[v] EXCEPT !.request.GET = params]]

\* request.GET = params: the worker's own request object gets the value.
Rewritten(workers, w, params) ==
    [workers EXCEPT ![w].request.GET = params]

InitThreads ==
    /\ db = Fixtures
    /\ pre = Fixtures
    /\ Idle
    /\ pending = [w \in 1..NWorkers |-> Free]
    /\ input = NoInput
    /\ output = NoOutput

Takes(w, changed) ==
    /\ pending' = [pending EXCEPT ![w] = changed]
    /\ UNCHANGED <<db, req, resp, pre, steps, internal, input, output>>

\* A worker takes a request: the view of its route is about to run.
Enter(w) ==
    /\ pending[w].pc = "free"
    /\ \E i \in 1..Len(ThreadRequests) :
          Takes(w, [pending[w] EXCEPT !.pc = "entered",
                                      !.original = ThreadRequests[i],
                                      !.request = ThreadRequests[i]])

\* _many_view: the operation reads the GET of the worker's request.
CollectionView(w) ==
    /\ pending[w].pc = "entered"
    /\ resolve(pending[w].request.path).view = "_many_view"
    /\ Takes(w, [pending[w] EXCEPT
                    !.pc = "done",
                    !.resp = _many_view("articles", db, pending[w].request,
                                        <<>>).response])

\* map_to_method up to request.GET = params
MapBegin(w) ==
    /\ pending[w].pc = "entered"
    /\ resolve(pending[w].request.path).view = "_get_related_view"
    /\ pending' =
          Rewritten([pending EXCEPT ![w].pc = "mapped",
                                    ![w].old_get = pending[w].request.GET],
                    w,
                    ("filter[article]" :> pending[w].request.path[2]) @@
                        pending[w].request.GET)
    /\ UNCHANGED <<db, req, resp, pre, steps, internal, input, output>>

\* method(request) and the wrapping of what it returned; an exception
\* leaves map_to_method with the GET as rewritten.
Mapped(w, op) ==
    Takes(w, [pending[w] EXCEPT
                 !.pc = IF op.raised THEN "done" ELSE "returned",
                 !.op = op,
                 !.resp = IF op.raised
                          THEN GotRelated(pending[w].request, op).response
                          ELSE NoResp])

MapCall(w) ==
    /\ pending[w].pc = "mapped"
    /\ Mapped(w, Wrapped(db, "categories",
                         Category_get_many(db, pending[w].request, <<>>)))

\* request.GET = old_get, and _get_related_view shapes the document.
MapEnd(w) ==
    /\ pending[w].pc = "returned"
    /\ Takes(w, [pending[w] EXCEPT
                    !.pc = "done",
                    !.request.GET = pending[w].old_get,
                    !.resp = GotRelated(
                                 [pending[w].request EXCEPT
                                     !.GET = pending[w].old_get],
                                 pending[w].op).response])

NextThreads ==
    \E w \in 1..NWorkers :
        Enter(w) \/ CollectionView(w) \/ MapBegin(w) \/ MapCall(w) \/ MapEnd(w)

SpecThreads == InitThreads /\ [][NextThreads]_vars

(***************************************************************************)
(* _create_one_view under a URLconf with and without the item route of     *)
(* the type: Article with any of get_one, edit_one, delete_one left out.   *)
(***************************************************************************)
ItemMethods == {<<"get", "one">>, <<"edit", "one">>, <<"delete", "one">>}

\* urls.py with Article short of the methods.
UrlpatternsWithout(methods) ==
    as_views([TYPE |-> "articles", attrs |-> Declared("articles") \ methods]) \o
    as_views(Descriptor("categories")) \o as_views(Descriptor("users"))

CreateRequests ==
    Each("POST", <<"articles">>,
         <<NoParams, Fields("articles", "title"), Fields("articles", "bogus")>>,
         CreateBodies)

InitCreated ==
    /\ db = Fixtures
    /\ pre = Fixtures
    /\ Idle
    /\ pending = [w \in 1..NWorkers |-> NoPending]
    /\ \E methods \in SUBSET ItemMethods, i \in 1..Len(CreateRequests) :
          input = [missing |-> methods, request |-> CreateRequests[i]]
    /\ output = NoOutput

CreateAnswers(op) ==
    /\ ~output.done
    /\ output' = [done |-> TRUE, op |-> op,
                  viewed |-> CreatedWith(UrlpatternsWithout(input.missing),
                                         "articles", db, input.request, op)]
    /\ UNCHANGED <<db, req, resp, pre, steps, internal, pending, input>>

CreateOneView ==
    \E text \in UniqueViolationTexts :
        CreateAnswers(Article_create_one(db, input.request, text))

NextCreated == CreateOneView

SpecCreated == InitCreated /\ [][NextCreated]_vars

(***************************************************************************)
(* _decorate_serialized on its own, and on what it returned: a serialized  *)
(* article with its relationships in every form serialize may give them,   *)
(* with and without a type and links of its own.                           *)
(***************************************************************************)
Custom == Url(<<"custom">>, EmptyDict)

\* The forms of a to-one relationship.
ToOneForms ==
    <<AsResource("users", 1),
      AsMapping("data" :> AsResource("users", 1)),
      AsMapping("data" :> DataDict("users", "2")),
      AsMapping(("data" :> DataDict("users", "2")) @@
                ("links" :> ("related" :> Custom))),
      AsMapping(("data" :> AsResource("users", 1)) @@
                ("links" :> ("self" :> Custom)))>>

\* The forms of a to-many relationship.
ToManyForms ==
    <<AsMapping(EmptyDict),
      AsSequence(<<AsResource("categories", 1), AsResource("categories", 2)>>),
      AsSequence(<<>>),
      AsMapping("data" :> DataSequence(<<DataDict("categories", "1"),
                                         AsResource("categories", 2)>>)),
      AsMapping("links" :> ("self" :> Custom))>>

\* What the object may have before it is decorated.
Presets ==
    <<EmptyDict, ("type" :> "articles"), ("type" :> "users"),
      ("links" :> ("self" :> Custom)),
      ("type" :> "articles") @@ ("links" :> ("self" :> Custom))>>

DecorateParams ==
    <<NoParams, Fields("articles", "slug,title"),
      Fields("articles", "title,author"), Fields("articles", "author"),
      Fields("articles", "categories"), Fields("articles", "bogus"),
      Fields("users", "title")>>

Serialized(preset, author, categories) ==
    preset @@
    [id |-> "1",
     attributes |-> [slug |-> "article-1", title |-> "Article 1",
                     content |-> "Content of article 1"],
     relationships |-> [author |-> author, categories |-> categories]]

\* A 'data' member of a decorated object, as the Mapping holds it.
TaggedData(data, toOne) ==
    IF toOne THEN DataDict(data.type, data.id)
    ELSE DataSequence([i \in 1..Len(data) |->
                          DataDict(data[i].type, data[i].id)])

\* The relationship of a decorated object: a Mapping, its 'data' a dict
\* when the relationship is to-one and a list when it is to-many.
TaggedRelationship(map, toOne) ==
    AsMapping(IF "data" \in DOMAIN map
              THEN With(map, "data", TaggedData(map["data"], toOne))
              ELSE map)

\* The decorated object as the argument of another _decorate_serialized.
Tagged(serialized, decorated) ==
    IF "relationships" \notin DOMAIN decorated THEN decorated
    ELSE With(decorated, "relationships",
              [key \in DOMAIN decorated["relationships"] |->
                  TaggedRelationship(decorated["relationships"][key],
                                     IsToOne(serialized.relationships[key]))])

InitDecorate ==
    /\ db = Fixtures
    /\ pre = Fixtures
    /\ Idle
    /\ pending = [w \in 1..NWorkers |-> NoPending]
    /\ \E i \in 1..Len(Presets), j \in 1..Len(ToOneForms),
          k \in 1..Len(ToManyForms), l \in 1..Len(DecorateParams) :
          input = [serialized |->
                       Serialized(Presets[i], ToOneForms[j], ToManyForms[k]),
                   request |-> Request("GET", <<"articles", "1">>,
                                       DecorateParams[l], Malformed)]
    /\ output = [done |-> FALSE, again |-> FALSE]

\* cls._decorate_serialized(request, serialized)
DecorateOnce ==
    /\ ~output.done
    /\ output' = [done |-> TRUE, again |-> FALSE,
                  once |-> _decorate_serialized("articles", input.request,
                                                input.serialized)]
    /\ UNCHANGED <<db, req, resp, pre, steps, internal, pending, input>>

\* cls._decorate_serialized(request, <what the first call returned>)
DecorateAgain ==
    /\ output.done
    /\ ~output.again
    /\ ~output.once.raised
    /\ output' = [output EXCEPT
                     !.again = TRUE,
                     !.once = output.once,
                     !.done = TRUE] @@
                 [twice |-> _decorate_serialized("articles", input.request,
                                Tagged(input.serialized, output.once.val))]
    /\ UNCHANGED <<db, req, resp, pre, steps, internal, pending, input>>

NextDecorate == DecorateOnce \/ DecorateAgain

SpecDecorate == InitDecorate /\ [][NextDecorate]_vars

(***************************************************************************)
(* The engine from the return of the operation on: get_one has returned    *)
(* article 1 and a sequence of side-loaded resources, any sequence.        *)
(***************************************************************************)
MaxIncluded == 3

SideLoaded ==
    {Resource("users", 1), Resource("users", 2), Resource("categories", 1),
     Resource("categories", 2)}

\* The sequences of at most n of the resources.
SideLoads(n) ==
    UNION {[1..k -> SideLoaded] : k \in 0..n}

IncludedParams == <<NoParams, Fields("users", "username,last_name")>>

InitIncluded ==
    /\ db = Fixtures
    /\ pre = Fixtures
    /\ Idle
    /\ pending = [w \in 1..NWorkers |-> NoPending]
    /\ \E included \in SideLoads(MaxIncluded), i \in 1..Len(IncludedParams) :
          input = [included |-> included,
                   request |-> Request("GET", <<"articles", "1">>,
                                       IncludedParams[i], Malformed)]
    /\ output = NoOutput

\* _get_one_view after get_one returned {'data': 1, 'included': included}
GetOneIncluding ==
    /\ ~output.done
    /\ output' = [done |-> TRUE,
                  viewed |-> GotOne("articles", input.request,
                                 Returned(db, OneIncluding(1, input.included),
                                          <<"read:articles">>))]
    /\ UNCHANGED <<db, req, resp, pre, steps, internal, pending, input>>

NextIncluded == GetOneIncluding

SpecIncluded == InitIncluded /\ [][NextIncluded]_vars

(***************************************************************************)
(* create_one without a slug, one request at a time, on a store that has   *)
(* any of the slugs the derivation may meet.                               *)
(***************************************************************************)
StoredSlugs == <<"foo", "foo-1", "foo-2", "foo-3", "article", "article-3">>

\* The fixtures and an article for each of the slugs.
Stored(slugs) ==
    LET more == SetToSeq(slugs)
    IN  [Fixtures EXCEPT
            !.articles = [i \in 1..(2 + Len(more)) |->
                IF i <= 2 THEN Fixtures.articles[i]
                ELSE ArticleRow(more[i - 2], "Stored", "Bar", 1, {})],
            !.nextId = 3 + Len(more)]

SluglessRequests ==
    Each("POST", <<"articles">>, <<NoParams, Fields("articles", "slug,title")>>,
         <<CreateBody("articles", Titled, "1"),
           CreateBody("articles",
                      [title |-> JStr("Article"), content |-> JStr("Bar")],
                      "2")>>)

InitSlug ==
    /\ \E slugs \in SUBSET SeqToSet(StoredSlugs) : db = Stored(slugs)
    /\ pre = db
    /\ Idle
    /\ pending = [w \in 1..NWorkers |-> NoPending]
    /\ \E i \in 1..Len(SluglessRequests) :
          input = [request |-> SluglessRequests[i]]
    /\ output = NoOutput

\* POST /articles without a slug.
CreateSlugless ==
    /\ ~output.done
    /\ \E text \in UniqueViolationTexts :
          output' = [done |-> TRUE,
                     viewed |-> _create_one_view("articles", db, input.request,
                                                 text)]
    /\ UNCHANGED <<db, req, resp, pre, steps, internal, pending, input>>

NextSlug == CreateSlugless

SpecSlug == InitSlug /\ [][NextSlug]_vars

(***************************************************************************)
(* _decorate_serialized under every URLconf the relationship methods of    *)
(* Article and the item route of User can give: which links a              *)
(* relationship gets from which routes.                                    *)
(***************************************************************************)
RelationshipMethods ==
    {<<"get", "author">>, <<"change", "author">>, <<"get", "categories">>,
     <<"add", "categories">>, <<"remove", "categories">>,
     <<"reset", "categories">>}

\* urls.py with Article short of the methods, and User with or without
\* the methods of its item route.
Urlconf(missing, userItems) ==
    as_views([TYPE |-> "articles", attrs |-> Declared("articles") \ missing]) \o
    as_views(Descriptor("categories")) \o
    as_views([TYPE |-> "users",
              attrs |-> Declared("users") \
                            (IF userItems THEN {} ELSE ItemMethods)])

\* The forms of a to-one relationship, {'data': None} among them.
ToOneGiven == ToOneForms \o <<AsMapping("data" :> DataNone)>>

ToManyGiven == ToManyForms \o <<AsMapping("data" :> DataSequence(<<>>))>>

InitLinks ==
    /\ db = Fixtures
    /\ pre = Fixtures
    /\ Idle
    /\ pending = [w \in 1..NWorkers |-> NoPending]
    /\ \E missing \in SUBSET RelationshipMethods, userItems \in BOOLEAN,
          j \in 1..Len(ToOneGiven), k \in 1..Len(ToManyGiven) :
          input = [missing |-> missing, userItems |-> userItems,
                   serialized |->
                       Serialized(EmptyDict, ToOneGiven[j], ToManyGiven[k])]
    /\ output = NoOutput

\* obj._decorate_serialized(request, serialized) under the URLconf
DecorateUnder ==
    /\ ~output.done
    /\ output' = [done |-> TRUE,
                  decorated |->
                      Decorate(Urlconf(input.missing, input.userItems),
                               "articles",
                               Request("GET", <<"articles", "1">>, NoParams,
                                       Malformed),
                               input.serialized)]
    /\ UNCHANGED <<db, req, resp, pre, steps, internal, pending, input>>

NextLinks == DecorateUnder

SpecLinks == InitLinks /\ [][NextLinks]_vars

(***************************************************************************)
(* The nested collections that map_to_method serves, asked with and        *)
(* without a value of the client for the filter the route injects.         *)
(***************************************************************************)
\* The parameter the nested route of TYPE injects for its parent.
InjectedKey(TYPE) ==
    CASE TYPE = "users" -> "filter[author]"
      [] TYPE = "categories" -> "filter[category]"
      [] TYPE = "articles" -> "filter[article]"

\* The collection under a parent of TYPE.
NestedName(TYPE) == IF TYPE = "articles" THEN "categories" ELSE "articles"

\* What the client may send for the filter, "" for nothing.
ClientFilters == <<"", "1", "2", "99", "x">>

NestedParams == <<NoParams, ("page" :> "1"), ("page" :> "2")>>

\* The fixtures, or the fixtures with both articles of user 1 and in
\* category 2.
NestedStores ==
    <<Fixtures,
      [Fixtures EXCEPT !.articles[2].author_id = 1,
                       !.articles[1].categories = {1, 2},
                       !.articles[2].categories = {2}]>>

InitNested ==
    /\ \E i \in 1..Len(NestedStores) : db = NestedStores[i]
    /\ pre = db
    /\ Idle
    /\ pending = [w \in 1..NWorkers |-> NoPending]
    /\ \E TYPE \in {"users", "categories", "articles"},
          obj_id \in {"1", "2", "99"},
          i \in 1..Len(ClientFilters), j \in 1..Len(NestedParams) :
          input = [TYPE |-> TYPE, obj_id |-> obj_id,
                   client |-> ClientFilters[i], GET |-> NestedParams[j]]
    /\ output = NoOutput

\* The request of the input, with the value of the client for the filter.
NestedRequest(in, client) ==
    Request("GET", <<in.TYPE, in.obj_id, NestedName(in.TYPE)>>,
            (IF client = "" THEN EmptyDict
             ELSE (InjectedKey(in.TYPE) :> client)) @@ in.GET,
            Malformed)

\* GET /<type>/<id>/<collection>
NestedView ==
    /\ ~output.done
    /\ output' = [done |-> TRUE,
                  viewed |-> View(db, NestedRequest(input, input.client), <<>>)]
    /\ UNCHANGED <<db, req, resp, pre, steps, internal, pending, input>>

NextNested == NestedView

SpecNested == InitNested /\ [][NextNested]_vars

(***************************************************************************)
(* SpecAuthors: the requests that set or remove the author of an article,  *)
(* one after the other: creations, edits, changes of the author, deletes   *)
(* of articles and deletes of users.                                       *)
(***************************************************************************)
\* The users a request may name: the two of the fixtures and one that
\* never exists.
NamedUsers == <<"1", "2", "99">>

AuthorBodies(id) ==
    [i \in 1..Len(NamedUsers) |->
        EditBody(id, [relationships |-> AuthorRelationship("users", NamedUsers[i])])]

AuthorChanges ==
    [i \in 1..Len(NamedUsers) |->
        Body(JObj([data |-> ResourceIdentifier("users", NamedUsers[i])]))]

AuthorCreations ==
    [i \in 1..Len(NamedUsers) |-> CreateBody("articles", Titled, NamedUsers[i])]

AuthorRequestsOf(id) ==
    Each("PATCH", <<"articles", id>>, <<NoParams>>, AuthorBodies(id)) \o
    Each("PATCH", <<"articles", id, "relationships", "author">>, <<NoParams>>,
         AuthorChanges) \o
    Each("DELETE", <<"articles", id>>, <<NoParams>>, <<Malformed>>)

AuthorRequests ==
    AuthorRequestsOf("1") \o AuthorRequestsOf("2") \o
    Each("POST", <<"articles">>, <<NoParams>>, AuthorCreations) \o
    [i \in 1..Len(NamedUsers) |->
        Request("DELETE", <<"users", NamedUsers[i]>>, NoParams, Malformed)]

\* PATCH or DELETE of an article, DELETE of a user.
AuthorsOneView ==
    /\ \E i \in 1..Len(AuthorRequests), text \in UniqueViolationTexts :
          OneViewAnswers(AuthorRequests[i], resolve(AuthorRequests[i].path),
                         text)
    /\ UNCHANGED <<pending, input, output>>

\* POST of an article.
AuthorsManyView ==
    /\ \E i \in 1..Len(AuthorRequests), text \in UniqueViolationTexts :
          ManyViewAnswers(AuthorRequests[i], resolve(AuthorRequests[i].path),
                          text)
    /\ UNCHANGED <<pending, input, output>>

\* PATCH of the author of an article.
AuthorsChangeView ==
    /\ \E i \in 1..Len(AuthorRequests) :
          ChangeViewAnswers(AuthorRequests[i], resolve(AuthorRequests[i].path))
    /\ UNCHANGED <<pending, input, output>>

NextAuthors ==
    \/ AuthorsOneView
    \/ AuthorsManyView
    \/ AuthorsChangeView
    \/ Done

SpecAuthors == Init /\ [][NextAuthors]_vars

(***************************************************************************)
(* as_views on its own: a descriptor of any attributes, and as_views       *)
(* called on it and on Article in any order, as urls.py may.               *)
(***************************************************************************)
MaxMethods == 3

MaxCalls == 3

\* The attributes a descriptor may declare: the methods as_views looks
\* for, on the relationships of Article and on a relationship whose name
\* has a "_" in it.
AttrUniverse ==
    {<<"get", "one">>, <<"edit", "one">>, <<"delete", "one">>,
     <<"get", "many">>, <<"create", "one">>} \cup
    {<<prefix, name>> : prefix \in {"change", "add", "remove", "reset", "get"},
                        name \in {"author", "categories"}} \cup
    {<<"change", "main", "author">>, <<"get", "main", "author">>,
     <<"reset", "main", "author">>}

Descriptors ==
    {[TYPE |-> "things", attrs |-> attrs] :
        attrs \in {a \in SUBSET AttrUniverse : Cardinality(a) <= MaxMethods}}

InitRoutes ==
    /\ db = Fixtures
    /\ pre = Fixtures
    /\ Idle
    /\ pending = [w \in 1..NWorkers |-> NoPending]
    /\ \E cls \in Descriptors : input = [cls |-> cls]
    /\ output = [done |-> FALSE, calls |-> <<>>]

\* cls.as_views(), after the calls before it.
Call(cls) ==
    /\ Len(output.calls) < MaxCalls
    /\ output' = [done |-> TRUE,
                  calls |-> Append(output.calls,
                      [cls |-> cls,
                       routes |-> as_views_with(cls,
                                      plural_relationships(output.calls))])]
    /\ UNCHANGED <<db, req, resp, pre, steps, internal, pending, input>>

CallDescriptor == Call(input.cls)

CallArticle == Call(Descriptor("articles"))

NextRoutes == CallDescriptor \/ CallArticle

SpecRoutes == InitRoutes /\ [][NextRoutes]_vars

(***************************************************************************)
(* PROPERTIES                                                              *)
(***************************************************************************)
\* The method of the descriptor a view of Resource maps the verb to, or
\* <<>> when the view does not accept the verb.
VerbMethod(route, method) ==
    CASE route.view = "_one_view" ->
           CASE method = "GET" -> <<"get", "one">>
             [] method = "PATCH" -> <<"edit", "one">>
             [] method = "DELETE" -> <<"delete", "one">>
             [] OTHER -> <<>>
      [] route.view = "_many_view" ->
           CASE method = "GET" -> <<"get", "many">>
             [] method = "POST" -> <<"create", "one">>
             [] OTHER -> <<>>
      [] route.view = "_change_view" ->
           IF method = "PATCH" THEN <<"change", route.relationship_name>>
           ELSE <<>>
      [] route.view = "_change_plural_view" ->
           CASE method = "POST" -> <<"add", route.relationship_name>>
             [] method = "DELETE" -> <<"remove", route.relationship_name>>
             [] method = "PATCH" -> <<"reset", route.relationship_name>>
             [] OTHER -> <<>>
      [] route.view = "_get_related_view" ->
           IF method = "GET" THEN <<"get", route.relationship_name>> ELSE <<>>
      [] OTHER -> <<>>

\* The verb is accepted by the route and declared on its descriptor.
Supported(route, method) ==
    /\ VerbMethod(route, method) # <<>>
    /\ VerbMethod(route, method) \in Declared(route.pattern[1])

Answered == req.method # "none"

\* C1: on every derived route, a verb the route does not accept, or accepts
\* but the descriptor does not declare, is answered 404 with the one
\* NotFound that names the path and the verb, never 405 or 500, and no
\* operation of the descriptor runs.
C1_UnsupportedVerbIs404 ==
    (Answered /\ ~Supported(resolve(req.path), req.method)) =>
        /\ resp.status = 404
        /\ resp.status \notin {405, 500}
        /\ resp.body = [errors |-> render(_raise_unsupported_verb_error(req))]
        /\ steps = <<>>

Success == {200, 201, 204}

\* The request is editOne, createOne or a to-many add, remove or reset.
AtomicWrite(request) ==
    VerbMethod(resolve(request.path), request.method) \in
        {<<"edit", "one">>, <<"create", "one">>, <<"add", "categories">>,
         <<"remove", "categories">>, <<"reset", "categories">>}

\* C2: when editOne, createOne or a to-many add/remove/reset, or the
\* shaping of the response after it, raises, the store after the request
\* is the store before it: effects persist only with a success response.
C2_FailedWriteLeavesStore ==
    (Answered /\ AtomicWrite(req) /\ resp.status \notin Success) => db = pre

\* An edit wrote the article, the sparse-fieldset check then failed, and
\* the store is as before.
C2_Witness ==
    /\ req.method = "PATCH"
    /\ req.path = <<"articles", "1">>
    /\ req.GET = Fields("articles", "bogus")
    /\ req.body = EditBodies("1")[1]
    /\ steps = <<"get_body", "raise_for_body", "read:articles",
                 "write:articles">>
    /\ resp.status = 400
    /\ db = pre

\* The route of the request is the to-many relationship of an article.
PluralWrite(request) ==
    /\ resolve(request.path).view = "_change_plural_view"
    /\ request.method \in {"POST", "DELETE", "PATCH"}

\* The article the path names, in the store: 0 when there is none.
Addressed(store, request) ==
    IF IsDigits(request.path[2]) /\
       StrToInt(request.path[2]) \in DOMAIN store.articles
    THEN StrToInt(request.path[2]) ELSE 0

\* The body is a list of category identifiers.
CategoryPayload(request) ==
    /\ request.body.wellFormed
    /\ iter_errors(request.body.json, Article__get_categories_schema, <<>>)
          = <<>>

\* The ids of the payload, as sent.
SentIds(request) ==
    {request.body.json.f["data"].q[i].f["id"].s :
        i \in 1..Len(request.body.json.f["data"].q)}

\* The ids that are the key of a category of the store.
KnownIds == {IntToStr(c) : c \in CategoryIds}

\* C3: for an article linked to L and a payload whose ids S all exist, POST
\* leaves L \cup S, DELETE leaves L \ S and PATCH leaves S; each answers 204
\* and the linkage of every other article is as before.
C3_AddRemoveReset ==
    (Answered /\ PluralWrite(req) /\ Addressed(pre, req) # 0 /\
     CategoryPayload(req) /\ SentIds(req) \subseteq KnownIds) =>
        LET a == Addressed(pre, req)
            L == pre.articles[a].categories
            S == {StrToInt(s) : s \in SentIds(req)}
        IN  /\ resp.status = 204
            /\ DOMAIN db.articles = DOMAIN pre.articles
            /\ db.articles[a].categories =
                  CASE req.method = "POST" -> L \cup S
                    [] req.method = "DELETE" -> L \ S
                    [] req.method = "PATCH" -> S
            /\ \A o \in DOMAIN pre.articles \ {a} :
                  db.articles[o] = pre.articles[o]

\* The article linked to category 1 was reset to category 2.
C3_Witness ==
    /\ req.method = "PATCH"
    /\ PluralWrite(req)
    /\ CategoryPayload(req)
    /\ SentIds(req) = {"2"}
    /\ Addressed(pre, req) = 1
    /\ pre.articles[1].categories = {1}
    /\ db.articles[1].categories = {2}
    /\ resp.status = 204

\* The entry of the error document for an unknown category id.
CategoryNotFound(id) ==
    render(NotFound(<<"Category with id '", id, "' not found">>))[1]

\* C4: when the payload of a to-many add/remove/reset holds ids that are
\* not in the store, the response is 404, its errors are exactly one
\* NotFound per distinct unknown id, and the linkage of the article is as
\* before, also when other ids of the payload exist.
C4_UnknownIdsAre404 ==
    (Answered /\ PluralWrite(req) /\ Addressed(pre, req) # 0 /\
     CategoryPayload(req) /\ SentIds(req) \ KnownIds # {}) =>
        /\ resp.status = 404
        /\ Len(resp.body.errors) = Cardinality(SentIds(req) \ KnownIds)
        /\ \A id \in SentIds(req) \ KnownIds :
              \E i \in 1..Len(resp.body.errors) :
                 resp.body.errors[i] = CategoryNotFound(id)
        /\ db.articles[Addressed(pre, req)].categories =
              pre.articles[Addressed(pre, req)].categories

ValidationSteps == {"raise_for_body", "raise_for_params"}

DomainSteps ==
    {"read:articles", "read:users", "read:categories", "write:articles",
     "write:linkage"}

NoSchema == [of |-> "none"]

\* The schema the operation of the request declares, and what it is for.
DeclaredSchema(request) ==
    LET method == VerbMethod(resolve(request.path), request.method)
        OfParams(GET, schema) ==
            [of |-> "params", instance |-> ParamsInstance(GET),
             schema |-> schema]
        OfBody(schema) ==
            IF request.body.wellFormed
            THEN [of |-> "body", instance |-> request.body.json,
                  schema |-> schema]
            ELSE NoSchema
    IN  CASE method = <<"get", "one">> ->
               OfParams(request.GET, Article_get_one_schema)
          [] method = <<"get", "many">> ->
               OfParams(request.GET, Article_get_many_schema)
          [] method = <<"get", "author">> ->
               OfParams(request.GET, User_get_one_schema)
          [] method = <<"get", "categories">> ->
               OfParams(("filter[article]" :> request.path[2]) @@ request.GET,
                        Category_get_many_schema)
          [] method = <<"edit", "one">> -> OfBody(Article_edit_one_schema)
          [] method = <<"create", "one">> -> OfBody(Article_create_one_schema)
          [] method = <<"change", "author">> ->
               OfBody(Article_change_author_schema)
          [] method \in {<<"add", "categories">>, <<"remove", "categories">>,
                         <<"reset", "categories">>} ->
               OfBody(Article__get_categories_schema)
          [] OTHER -> NoSchema

\* The input of the request violates the schema its operation declares.
InputViolates(request) ==
    LET declared == DeclaredSchema(request)
    IN  /\ declared.of # "none"
        /\ iter_errors(declared.instance, declared.schema, <<>>) # <<>>

\* C5: input that violates the declared schema is answered with the 400
\* validation document, and no read or write of the domain comes before a
\* validation of the operation, nested getters included.
C5_ValidatedBeforeExecuted ==
    Answered =>
        /\ \A i, j \in 1..Len(steps) :
              (i < j /\ steps[j] \in ValidationSteps) =>
                  steps[i] \notin DomainSteps
        /\ InputViolates(req) =>
              /\ resp.status = 400
              /\ \A i \in 1..Len(steps) : steps[i] \notin DomainSteps

\* C6: an exception that is no DjsonApiException is answered 500 with the
\* one entry server_error / "Something went wrong", whatever its text: the
\* body holds nothing of the internal exception.
C6_UndeclaredIsGeneric500 ==
    (Answered /\ internal.kind = "other") =>
        /\ resp.status = 500
        /\ resp.body = [errors |-> render(ServerError)]

\* C7: raise_for_body and raise_for_params return when the validator finds
\* no violation, and otherwise raise one composite error of exactly one
\* BadRequest (400) per violation, violations inside array items included.
C7_OneBadRequestPerViolation ==
    output.done =>
        LET found == iter_errors(IF input.fn = "raise_for_params"
                                 THEN ParamsInstance(input.obj)
                                 ELSE input.obj,
                                 input.schema, <<>>)
        IN  IF found = <<>> THEN ~output.outcome.raised
            ELSE /\ output.outcome.raised
                 /\ IsMulti(output.outcome.exc)
                 /\ Len(output.outcome.exc.args) = Len(found)
                 /\ \A i \in 1..Len(found) :
                       /\ output.outcome.exc.args[i].cls = Chars_BadRequest
                       /\ output.outcome.exc.args[i].STATUS = 400
                 /\ status(output.outcome.exc) = 400

\* C8: the status of a composite error with members is their common status
\* when they share one, and otherwise the largest hundreds-class among
\* them: 404+404 is 404, 400+404 is 400, 401+500 is 500, and a mix of
\* different codes with a 5xx is 500.
C8_CompositeStatus ==
    (output.done /\ Len(input) >= 1) =>
        LET S == Range(input)
        IN  /\ (\A x \in S : x = input[1]) => output.val = input[1]
            /\ (\E x \in S : x # input[1]) =>
                  /\ \E x \in S : output.val = (x \div 100) * 100
                  /\ \A x \in S : output.val >= (x \div 100) * 100
                  /\ (\E x \in S : x >= 500) => output.val = 500
            /\ input = <<404, 404>> => output.val = 404
            /\ input = <<400, 404>> => output.val = 400
            /\ input = <<401, 500>> => output.val = 500

C8_Witness ==
    /\ output.done
    /\ input = <<401, 500>>
    /\ output.val = 500

\* The verbs that answer with a document: item get, edit and create,
\* collection get, nested related get.
DocumentMethod(request) ==
    VerbMethod(resolve(request.path), request.method) \in
        {<<"get", "one">>, <<"edit", "one">>, <<"create", "one">>,
         <<"get", "many">>, <<"get", "author">>, <<"get", "categories">>}

\* The primary data of the document is a list.
DataIsList(request) ==
    VerbMethod(resolve(request.path), request.method) \in
        {<<"get", "many">>, <<"get", "categories">>}

\* The resource objects of a document: primary data, then included.
ObjectsOf(request, body) ==
    (IF DataIsList(request) THEN body.data ELSE <<body.data>>) \o
    (IF "included" \in DOMAIN body THEN body.included ELSE <<>>)

FieldsKeys == {FieldsKey(Types[i]) : i \in 1..Len(Types)}

\* The request without its fields[...] parameters.
WithoutFields(request) ==
    [request EXCEPT !.GET = Restrict(@, DOMAIN @ \ FieldsKeys)]

\* What the server answers, from the store before the request, when the
\* request carries no fields[...] parameter.
Unlimited(request) ==
    View(pre, WithoutFields(request), <<>>).response

\* The names fields[<type of obj>] of the request asks for.
RequestedOf(request, obj) ==
    SeqToSet(split(request.GET[FieldsKey(obj.type)]))

\* obj is the object `full` limited to the requested fields.
LimitedTo(request, obj, full) ==
    IF FieldsKey(full.type) \notin DOMAIN request.GET THEN obj = full
    ELSE /\ Keys(obj, "attributes") \cup Keys(obj, "relationships") =
               RequestedOf(request, full)
         /\ "attributes" \in DOMAIN obj => DOMAIN obj["attributes"] # {}
         /\ "relationships" \in DOMAIN obj => DOMAIN obj["relationships"] # {}
         /\ obj.id = full.id
         /\ obj.type = full.type
         /\ obj.links = full.links
         /\ \A k \in Keys(obj, "attributes") :
               /\ k \in Keys(full, "attributes")
               /\ obj["attributes"][k] = full["attributes"][k]
         /\ \A k \in Keys(obj, "relationships") :
               /\ k \in Keys(full, "relationships")
               /\ obj["relationships"][k] = full["relationships"][k]

\* C9: with fields[<type>] naming only attributes and relationships of the
\* object, every resource object of that type in the document, primary or
\* included, has exactly the requested names as the union of its attribute
\* and relationship keys, carries no empty attributes or relationships
\* map, and keeps its id, type, links and the values of what survives.
C9_SparseFieldsets ==
    (Answered /\ DocumentMethod(req) /\ resp.status \in {200, 201} /\
     DOMAIN req.GET \cap FieldsKeys # {}) =>
        /\ Unlimited(req).status = resp.status
        /\ Len(ObjectsOf(req, resp.body)) =
              Len(ObjectsOf(req, Unlimited(req).body))
        /\ \A i \in 1..Len(ObjectsOf(req, resp.body)) :
              LimitedTo(req, ObjectsOf(req, resp.body)[i],
                        ObjectsOf(req, Unlimited(req).body)[i])

\* An article limited to its title and author, with its author included
\* and limited to the username: the user has no relationships left.
C9_Witness ==
    /\ req.method = "GET"
    /\ req.path = <<"articles", "1">>
    /\ req.GET = Include("author") @@ Fields("articles", "title,author") @@
                 Fields("users", "username")
    /\ resp.status = 200
    /\ DOMAIN resp.body.data["attributes"] = {"title"}
    /\ DOMAIN resp.body.data["relationships"] = {"author"}
    /\ DOMAIN resp.body.included[1]["attributes"] = {"username"}
    /\ "relationships" \notin DOMAIN resp.body.included[1]

\* The (type, field) pairs the request asks for that no object of the type
\* in the document has.
UnknownFields(request, objects) ==
    {tf \in Range(Types) \X {"bogus", "nope", "zilch", "slug", "title",
                             "author", "username", "last_name", "articles"} :
        /\ FieldsKey(tf[1]) \in DOMAIN request.GET
        /\ tf[2] \in SeqToSet(split(request.GET[FieldsKey(tf[1])]))
        /\ \E i \in 1..Len(objects) :
              /\ objects[i].type = tf[1]
              /\ tf[2] \notin Keys(objects[i], "attributes") \cup
                              Keys(objects[i], "relationships")}

\* C10: on every endpoint that answers with a document, fields[<type>]
\* naming a field that is no attribute and no relationship of the object
\* is answered 400 with exactly one BadRequest per distinct unknown field,
\* never with a success document or a 500.
C10_UnknownFieldIs400 ==
    (Answered /\ DocumentMethod(req) /\ Unlimited(req).status \in {200, 201} /\
     UnknownFields(req, ObjectsOf(req, Unlimited(req).body)) # {}) =>
        /\ resp.status = 400
        /\ Len(resp.body.errors) =
              Cardinality(UnknownFields(req,
                                        ObjectsOf(req, Unlimited(req).body)))
        /\ \A i \in 1..Len(resp.body.errors) :
              resp.body.errors[i].status = "400"

\* C11: a collection of N items in its order, asked for page p >= 1 (no
\* page parameter is p = 1), gives the items [(p-1)*10, p*10) as data, with
\* a `previous` link iff p > 1 and a `next` link iff p*10 < N.
C11_Pagination ==
    output.done =>
        LET p == PageOf(input.GET)
            N == input.n
            items == [i \in 1..N |-> i]
        IN  /\ ~output.op.raised
            /\ output.op.result.data =
                  [i \in 1..(Min(p * 10, N) - Min((p - 1) * 10, N)) |->
                      items[(p - 1) * 10 + i]]
            /\ "previous" \in DOMAIN output.op.result.links <=> p > 1
            /\ "next" \in DOMAIN output.op.result.links <=> p * 10 < N

\* The verbs that answer with the document of a collection.
CollectionMethod(request) ==
    VerbMethod(resolve(request.path), request.method) \in
        {<<"get", "many">>, <<"get", "categories">>}

\* The page a link of the name leads to, from the page p.
Leads(key, p) == IF key = "previous" THEN p - 1 ELSE p + 1

Prefixed(cls, prefixes) == {a \in cls.attrs : a[1] \in prefixes}

\* The path templates of the routes to the view.
Templates(routes, view) ==
    {routes[i].pattern : i \in {k \in 1..Len(routes) : routes[k].view = view}}

\* How many routes go to the view.
Count(routes, view) ==
    Cardinality({k \in 1..Len(routes) : routes[k].view = view})

\* The x of get_x that are relationships: all but one and many.
Nested(cls) ==
    {a \in Prefixed(cls, {"get"}) : Tail(a) \notin {<<"one">>, <<"many">>}}

\* The routes are those of the descriptor: item, collection, one per
\* change_x, one per x of add_x/remove_x/reset_x, one per nested get_x.
RoutesOf(cls, routes) ==
    /\ Templates(routes, "_one_view") =
          IF Prefixed(cls, {"get", "edit", "delete"}) \cap
                {<<"get", "one">>, <<"edit", "one">>, <<"delete", "one">>} # {}
          THEN {<<cls.TYPE, ObjId>>} ELSE {}
    /\ Count(routes, "_one_view") = Cardinality(Templates(routes, "_one_view"))
    /\ Templates(routes, "_many_view") =
          IF {<<"get", "many">>, <<"create", "one">>} \cap cls.attrs # {}
          THEN {<<cls.TYPE>>} ELSE {}
    /\ Count(routes, "_many_view") = Cardinality(Templates(routes, "_many_view"))
    /\ Count(routes, "_change_view") = Cardinality(Prefixed(cls, {"change"}))
    /\ \A a \in Prefixed(cls, {"change"}) :
          Len(a) = 2 =>
             <<cls.TYPE, ObjId, "relationships", a[2]>> \in
                 Templates(routes, "_change_view")
    /\ Count(routes, "_change_plural_view") =
          Cardinality({Tail(a) : a \in Prefixed(cls, {"add", "remove", "reset"})})
    /\ \A a \in Prefixed(cls, {"add", "remove", "reset"}) :
          Len(a) = 2 =>
             <<cls.TYPE, ObjId, "relationships", a[2]>> \in
                 Templates(routes, "_change_plural_view")
    /\ Count(routes, "_get_related_view") = Cardinality(Nested(cls))
    /\ \A a \in Nested(cls) :
          Len(a) = 2 =>
             <<cls.TYPE, ObjId, a[2]>> \in Templates(routes, "_get_related_view")
    /\ \A i \in 1..Len(routes) :
          routes[i].view \in {"_one_view", "_many_view", "_change_view",
                              "_change_plural_view", "_get_related_view"}

\* C13: as_views yields, for any descriptor, exactly the item route iff
\* get_one/edit_one/delete_one, the collection route iff
\* get_many/create_one, one relationship route per declared change_x, one
\* per distinct x of add_x/remove_x/reset_x, one nested route per
\* declared get_x other than get_one and get_many, and no other route.
C13_RoutesOfTheDescriptor ==
    \A i \in 1..Len(output.calls) :
        RoutesOf(output.calls[i].cls, output.calls[i].routes)

OwnGET(worker) ==
    \/ worker.request.GET = worker.original.GET
    \/ /\ worker.pc \in {"mapped", "returned", "done"}
       /\ worker.request.GET =
             ("filter[article]" :> worker.original.path[2]) @@
                 worker.original.GET

\* C15: under any interleaving of the workers, the response to a request
\* is the response the request gets on its own from the store, and the
\* rewrite of the query parameters in map_to_method is seen in the
\* worker's own request only.
C15_NoSharedState ==
    \A w \in 1..NWorkers :
        /\ pending[w].pc # "free" => OwnGET(pending[w])
        /\ pending[w].pc = "done" =>
              pending[w].resp = View(db, pending[w].original, <<>>).response

\* A nested request answered while the other worker is inside
\* map_to_method with the filter of another article.
C15_Witness ==
    /\ pending[1].pc = "done"
    /\ pending[1].original.path = <<"articles", "1", "categories">>
    /\ pending[1].resp.status = 200
    /\ pending[2].pc = "mapped"
    /\ pending[2].request.GET["filter[article]"] = "2"

\* C16: a successful createOne answers 201 with the document of the
\* created item, and with a Location header, the self link of the item,
\* exactly when the type has an item route.
C16_CreatedAndLocation ==
    (output.done /\ ~output.op.raised /\ output.viewed.exc = NoExc) =>
        /\ output.viewed.response.status = 201
        /\ output.viewed.response.body["data"].type = "articles"
        /\ output.viewed.response.body["data"].id =
              IntToStr(output.op.result.data[1])
        /\ output.op.result.data[1] \in
              DOMAIN output.viewed.store.articles \ DOMAIN db.articles
        /\ input.missing # ItemMethods =>
              /\ "Location" \in DOMAIN output.viewed.response.headers
              /\ output.viewed.response.headers["Location"] =
                    Url(<<"articles", IntToStr(output.op.result.data[1])>>,
                        EmptyDict)
              /\ output.viewed.response.headers["Location"] =
                    output.viewed.response.body["data"].links["self"]
        /\ input.missing = ItemMethods =>
              "Location" \notin DOMAIN output.viewed.response.headers

\* An article created where only edit_one gives the type its item route.
C16_Witness ==
    /\ output.done
    /\ input.missing = {<<"get", "one">>, <<"delete", "one">>}
    /\ output.viewed.response.status = 201
    /\ "Location" \in DOMAIN output.viewed.response.headers

\* The request is deleteOne, a to-one change or a to-many add, remove or
\* reset.
NoContentWrite(request) ==
    VerbMethod(resolve(request.path), request.method) \in
        {<<"delete", "one">>, <<"change", "author">>, <<"add", "categories">>,
         <<"remove", "categories">>, <<"reset", "categories">>}

\* The operation returned and the view answered with its own response.
Succeeded == steps # <<>> /\ steps[Len(steps)] = "respond"

\* C17: a successful deleteOne, to-one change or to-many add, remove or
\* reset is answered 204 with an empty body, and after a successful
\* deleteOne the item is not in the store any more.
C17_NoContent ==
    (Answered /\ NoContentWrite(req) /\ Succeeded) =>
        /\ resp.status = 204
        /\ resp.body = EmptyDict
        /\ req.method = "DELETE" /\ resolve(req.path).view = "_one_view" =>
              /\ Addressed(pre, req) # 0
              /\ Addressed(pre, req) \notin DOMAIN db.articles

\* Article 1 deleted.
C17_Witness ==
    /\ req.method = "DELETE"
    /\ req.path = <<"articles", "1">>
    /\ resp.status = 204
    /\ 1 \in DOMAIN pre.articles
    /\ 1 \notin DOMAIN db.articles

\* The links of the relationship as serialize gave it.
GivenLinks(relationship) ==
    IF relationship.is = "Mapping" /\ "links" \in DOMAIN relationship.map
    THEN relationship.map["links"] ELSE EmptyDict

\* What the object had before the decoration is in the decorated object:
\* its type, its links and the links of its relationships.
KeepsGiven(serialized, decorated) ==
    /\ "type" \in DOMAIN serialized => decorated.type = serialized.type
    /\ "links" \in DOMAIN serialized => decorated.links = serialized.links
    /\ \A key \in Keys(decorated, "relationships") :
          \A name \in DOMAIN GivenLinks(serialized.relationships[key]) :
              decorated["relationships"][key]["links"][name] =
                  GivenLinks(serialized.relationships[key])[name]

\* C18: _decorate_serialized of what _decorate_serialized returned is the
\* same object, and a type or a link the object already had is kept.
C18_DecorationIsIdempotent ==
    (output.done /\ ~output.once.raised) =>
        /\ KeepsGiven(input.serialized, output.once.val)
        /\ output.again =>
              /\ ~output.twice.raised
              /\ output.twice.val = output.once.val

\* An article with a wrapped author and its own self link, limited to
\* title and author, decorated twice.
C18_Witness ==
    /\ output.done
    /\ output.again
    /\ input.serialized.relationships.author = AsResource("users", 1)
    /\ "links" \in DOMAIN input.serialized
    /\ input.request.GET = Fields("articles", "title,author")
    /\ ~output.twice.raised
    /\ output.twice.val["relationships"]["author"]["data"] =
          [type |-> "users", id |-> "1"]

\* The {type, id} pairs of the entries.
Identities(entries) == {<<entries[i].type, entries[i].id>> : i \in 1..Len(entries)}

\* C19: `included` has no two entries with the same {type, id}, whatever
\* sequence of side-loaded resources the operation gave, and every
\* resource the operation gave is in it: the same id under two types is
\* two entries.
C19_IncludedHasNoDuplicates ==
    (output.done /\ output.viewed.response.status = 200) =>
        /\ \A i, j \in 1..Len(output.viewed.response.body["included"]) :
              (output.viewed.response.body["included"][i].type =
                   output.viewed.response.body["included"][j].type /\
               output.viewed.response.body["included"][i].id =
                   output.viewed.response.body["included"][j].id) => i = j
        /\ Identities(output.viewed.response.body["included"]) =
              {<<input.included[i].TYPE, IntToStr(input.included[i].obj)>> :
                  i \in 1..Len(input.included)}

\* The slugs of the stored articles.
SlugsOf(store) == {store.articles[i].slug : i \in DOMAIN store.articles}

\* slugify(title) when no stored article has it, else <prefix>-i for the
\* smallest i >= 1 that no stored article has.
SmallestFree(prefix, slugs) ==
    IF prefix \notin slugs THEN prefix
    ELSE Suffixed(prefix,
             CHOOSE i \in 1..MaxSuffix :
                /\ Suffixed(prefix, i) \notin slugs
                /\ \A m \in 1..(i - 1) : Suffixed(prefix, m) \in slugs)

\* C20: createOne of an article without a slug is answered 201 and stores
\* slugify(title) when no stored article has that slug, else <prefix>-i
\* for the smallest i >= 1 no stored article has; the slug is never that
\* of an article already stored.
C20_DerivedSlug ==
    output.done =>
        /\ output.viewed.response.status = 201
        /\ db.nextId \in DOMAIN output.viewed.store.articles
        /\ output.viewed.store.articles[db.nextId].slug =
              SmallestFree(
                  slugify(input.request.body.json.f["data"].f["attributes"]
                              .f["title"].s),
                  SlugsOf(db))
        /\ output.viewed.store.articles[db.nextId].slug \notin SlugsOf(db)
        /\ output.viewed.response.body["data"]["attributes"]["slug"] =
              output.viewed.store.articles[db.nextId].slug

\* "Foo" created where foo, foo-1 and foo-3 are stored: foo-2.
C20_Witness ==
    /\ output.done
    /\ SlugsOf(db) \cap {"foo", "foo-1", "foo-2", "foo-3"} =
          {"foo", "foo-1", "foo-3"}
    /\ output.viewed.response.status = 201
    /\ output.viewed.store.articles[db.nextId].slug = "foo-2"

\* C21: every request to a derived route ends in a response of the
\* document builder or of the error model: whatever is raised while the
\* request is validated, while the operation runs or while the response
\* is shaped is answered by exception_handler with an error document, and
\* no exception leaves the view.
C21_NoExceptionEscapes ==
    (Answered /\ resolve(req.path).view # "none") =>
        /\ ~resp.escaped
        /\ resp.status \notin Success => "errors" \in DOMAIN resp.body

\* C22: every entry of every error document has status, code, title and
\* detail, and the source of an entry that has one has exactly one key:
\* `pointer` or `parameter`; the entries for unknown names of a sparse
\* fieldset have `parameter`.
C22_ErrorEntries ==
    (Answered /\ "errors" \in DOMAIN resp.body) =>
        \A i \in 1..Len(resp.body["errors"]) :
            /\ {"status", "code", "title", "detail"} \subseteq
                  DOMAIN resp.body["errors"][i]
            /\ resp.body["errors"][i].status \in
                  {StatusStr(code) : code \in StatusCodes}
            /\ "source" \in DOMAIN resp.body["errors"][i] =>
                  \/ DOMAIN resp.body["errors"][i].source = {"pointer"}
                  \/ DOMAIN resp.body["errors"][i].source = {"parameter"}

\* The links of a decorated relationship.
LinksOf(relationship) ==
    IF "links" \in DOMAIN relationship THEN relationship["links"] ELSE EmptyDict

\* The {type, id} of the 'data' the serializer gave.
GivenLinkage(data) ==
    IF data.is = "Resource" THEN [type |-> data.TYPE, id |-> IntToStr(data.obj)]
    ELSE [type |-> data.type, id |-> data.id]

\* The 'data' of the to-one relationship as serialize gave it.
GivenData(relationship) ==
    IF relationship.is = "Resource" THEN relationship
    ELSE relationship.map["data"]

\* The links a to-one relationship X of article 1 gets from the routes:
\* related from get_X, or from the item route of the target when there is
\* no get_X; self from change_X.
ToOneLinks(missing, userItems, linkage) ==
    (IF <<"get", "author">> \notin missing
     THEN ("related" :> Url(<<"articles", "1", "author">>, EmptyDict))
     ELSE IF userItems /\ linkage.type = "users"
     THEN ("related" :> Url(<<"users", linkage.id>>, EmptyDict))
     ELSE EmptyDict) @@
    (IF <<"change", "author">> \notin missing
     THEN ("self" :> Url(<<"articles", "1", "relationships", "author">>,
                         EmptyDict))
     ELSE EmptyDict)

\* The to-one relationship has a linkage for its data.
HasLinkage(serialized) == GivenData(serialized.relationships.author).is # "None"

\* C23: a to-one relationship X is decorated with its data as {type, id},
\* links.related the nested get_X route when it is declared and else the
\* item route of the target when that exists, links.self the change_X
\* route iff change_X is declared, and the links it already had kept.
C23_ToOneRelationship ==
    (output.done /\ HasLinkage(input.serialized)) =>
        /\ ~output.decorated.raised
        /\ output.decorated.val["relationships"]["author"]["data"] =
              GivenLinkage(GivenData(input.serialized.relationships.author))
        /\ LinksOf(output.decorated.val["relationships"]["author"]) =
              GivenLinks(input.serialized.relationships.author) @@
              ToOneLinks(input.missing, input.userItems,
                  GivenLinkage(GivenData(input.serialized.relationships.author)))

\* A wrapped author where Article has no get_author: the related link is
\* the item route of the user.
C23_Witness ==
    /\ output.done
    /\ input.serialized.relationships.author = AsResource("users", 1)
    /\ <<"get", "author">> \in input.missing
    /\ <<"change", "author">> \notin input.missing
    /\ input.userItems
    /\ ~output.decorated.raised
    /\ output.decorated.val["relationships"]["author"]["links"]["related"] =
          Url(<<"users", "1">>, EmptyDict)

\* C24: an object serialized with a to-one relationship {data: null} is
\* decorated without error: the relationship has data null and the self
\* and related links of the routes that are declared.
C24_NullToOne ==
    (output.done /\ ~HasLinkage(input.serialized)) =>
        /\ ~output.decorated.raised
        /\ output.decorated.val["relationships"]["author"]["data"] = Null
        /\ LinksOf(output.decorated.val["relationships"]["author"]) =
              ToOneLinks(input.missing, FALSE, Null)

\* The items of the to-many relationship as serialize gave it.
GivenItems(relationship) ==
    IF relationship.is = "Sequence" THEN relationship.items
    ELSE relationship.map["data"].items

\* serialize gave the to-many relationship a 'data'.
GivenHasData(relationship) ==
    \/ relationship.is = "Sequence"
    \/ "data" \in DOMAIN relationship.map

\* The links a to-many relationship X of article 1 gets from the routes:
\* self from any of add_X, remove_X, reset_X; related from get_X.
ToManyLinks(missing) ==
    (IF {<<"add", "categories">>, <<"remove", "categories">>,
         <<"reset", "categories">>} \ missing # {}
     THEN ("self" :> Url(<<"articles", "1", "relationships", "categories">>,
                         EmptyDict))
     ELSE EmptyDict) @@
    (IF <<"get", "categories">> \notin missing
     THEN ("related" :> Url(<<"articles", "1", "categories">>, EmptyDict))
     ELSE EmptyDict)

\* C25: a decorated to-many relationship X has a `data` member iff the
\* serializer gave one, with every resource of it as {type, id} in the
\* same order; links.self iff the type declares any of add_X, remove_X,
\* reset_X and links.related iff it declares get_X, next to the links the
\* relationship already had; {} gets links only.
C25_ToManyRelationship ==
    (output.done /\ HasLinkage(input.serialized)) =>
        /\ ~output.decorated.raised
        /\ "data" \in DOMAIN output.decorated.val["relationships"]["categories"]
              <=> GivenHasData(input.serialized.relationships.categories)
        /\ GivenHasData(input.serialized.relationships.categories) =>
              output.decorated.val["relationships"]["categories"]["data"] =
                  [i \in 1..Len(GivenItems(
                                    input.serialized.relationships.categories)) |->
                      GivenLinkage(GivenItems(
                          input.serialized.relationships.categories)[i])]
        /\ LinksOf(output.decorated.val["relationships"]["categories"]) =
              GivenLinks(input.serialized.relationships.categories) @@
              ToManyLinks(input.missing)

\* The placeholder {} where Article declares remove_categories only, of
\* the methods of the relationship: a self link and nothing else.
C25_Witness ==
    /\ output.done
    /\ input.serialized.relationships.categories = AsMapping(EmptyDict)
    /\ <<"remove", "categories">> \notin input.missing
    /\ {<<"add", "categories">>, <<"reset", "categories">>,
        <<"get", "categories">>} \subseteq input.missing
    /\ ~output.decorated.raised
    /\ output.decorated.val["relationships"]["categories"] =
          [links |-> [self |-> Url(<<"articles", "1", "relationships",
                                     "categories">>, EmptyDict)]]

\* The exception the handling of the request raised, NoExc when none.
RaisedIn(store, request) == View(store, request, <<>>).exc

\* A composite with members, whose status is defined.
HasMembers(exc) ==
    /\ Len(exc.args) >= 1
    /\ status(exc) # NoStatus

\* C26: a composite error raised while a request is handled, by the
\* schema validator, by the check of the sparse fieldset or by the lookup
\* of the ids of a relationship, has at least one member, and so a
\* status.
C26_CompositeHasMembers ==
    (Answered /\ IsMulti(RaisedIn(pre, req))) => HasMembers(RaisedIn(pre, req))

\* The lookup of the ids of a relationship raised a composite of NotFound.
C26_Witness ==
    /\ Answered
    /\ PluralWrite(req)
    /\ resp.status = 404
    /\ IsMulti(RaisedIn(pre, req))
    /\ Len(RaisedIn(pre, req).args) = 2

\* The object of the document belongs to the parent of the route.
OfParent(store, in, obj) ==
    CASE in.TYPE = "users" ->
           store.articles[StrToInt(obj.id)].author_id = StrToInt(in.obj_id)
      [] in.TYPE = "categories" ->
           StrToInt(in.obj_id) \in store.articles[StrToInt(obj.id)].categories
      [] in.TYPE = "articles" ->
           StrToInt(obj.id) \in store.articles[StrToInt(in.obj_id)].categories

\* C27: on a nested collection route the filter injected for the parent
\* goes before what the client sends for the same parameter: the request
\* is answered as the request without the client's value is, with the
\* same data, all of it of the parent in the URL.
C27_InjectedFilterWins ==
    output.done =>
        /\ output.viewed.response.status =
              View(db, NestedRequest(input, ""), <<>>).response.status
        /\ output.viewed.response.status = 200 =>
              /\ output.viewed.response.body["data"] =
                    View(db, NestedRequest(input, ""), <<>>).response.body["data"]
              /\ \A i \in 1..Len(output.viewed.response.body["data"]) :
                    OfParent(db, input, output.viewed.response.body["data"][i])

\* The articles of user 1, asked with filter[author]=2: those of user 1.
C27_Witness ==
    /\ output.done
    /\ input.TYPE = "users"
    /\ input.obj_id = "1"
    /\ input.client = "2"
    /\ output.viewed.response.status = 200
    /\ Len(output.viewed.response.body["data"]) >= 1
    /\ \A i \in 1..Len(output.viewed.response.body["data"]) :
          output.viewed.response.body["data"][i]["relationships"]["author"]
              ["data"].id = "1"

\* The answers a page of a collection may get: a document or a 4xx error.
PageAnswers == {200} \cup {code \in StatusCodes : code >= 400 /\ code < 500}

\* C28: a collection request whose `page` is a string of digits ("0" and
\* pages after the last one included) is answered with a 200 document or
\* with a 4xx error document, never with a 500.
C28_PageNeverServerError ==
    (/\ Answered
     /\ req.method = "GET"
     /\ CollectionMethod(req)
     /\ "page" \in DOMAIN req.GET
     /\ IsDigits(req.GET["page"])) =>
        /\ ~resp.escaped
        /\ resp.status \in PageAnswers

\* No two rows of the store have the same slug.
UniqueSlugs(store) ==
    \A i, j \in DOMAIN store.articles :
        store.articles[i].slug = store.articles[j].slug => i = j

\* The worker answers the creation it had prepared.
Commits(w) == pending[w] # NoPending /\ pending'[w] = NoPending

\* The worker that commits a slug another request has stored since it
\* read is answered 409 and the store stays as it was.
LoserIsRefused ==
    \A w \in 1..NWorkers :
        (Commits(w) /\ SlugTaken(db, pending[w].slug, {})) =>
            /\ resp'.status = 409
            /\ ~resp'.escaped
            /\ db' = db

\* C29: however concurrent creations of articles interleave (slug given
\* or derived from the title, two of them deriving the same slug
\* included), no two stored articles share a slug, and the creation that
\* loses the race is answered 409 Conflict and stores nothing.
C29_SlugsStayUnique == [](UniqueSlugs(db)) /\ [][LoserIsRefused]_vars

\* A creation derived its slug from the title, lost the race to the insert
\* and was answered 409; the store is as it was before the answer.
C29_Witness ==
    /\ Answered
    /\ resp.status = 409
    /\ \E i \in 1..Len(steps) : steps[i] = "write:articles"
    /\ db = pre
    /\ db.nextId > Fixtures.nextId
    /\ "slug" \notin DOMAIN req.body.json.f["data"].f["attributes"].f

\* The author of every article of the store is a user of the store.
AuthorsExist(store) ==
    \A i \in DOMAIN store.articles : store.articles[i].author_id \in store.users

\* The user the request names as the author, "" when it names none.
NamedUser(request) ==
    CASE request.method = "POST" /\ Len(request.path) = 1 ->
           request.body.json.f["data"].f["relationships"].f["author"]
               .f["data"].f["id"].s
      [] request.method = "PATCH" /\ Len(request.path) = 2 ->
           request.body.json.f["data"].f["relationships"].f["author"]
               .f["data"].f["id"].s
      [] request.method = "PATCH" /\ Len(request.path) = 4 ->
           request.body.json.f["data"].f["id"].s
      [] OTHER -> ""

\* The request deletes a user that was there.
DeletesUser(request, store) ==
    /\ request.method = "DELETE"
    /\ request.path[1] = "users"
    /\ StrToInt(request.path[2]) \in store.users

====
